---- MODULE Spec2Model ----
(***************************************************************************)
(* infratest: the flow scheduler (internal/flow/executor.go), the cleanup  *)
(* manager with its signal listener (internal/flow/cleanup.go, newer       *)
(* revision) and the run command (cmd/root.go) as one state machine.       *)
(*                                                                         *)
(* Two threads of control exist: "main" (executeFlow -> ExecuteWithContext *)
(* -> RunCleanup -> Stop -> exit) and "monitor" (the goroutine started by  *)
(* CleanupManager.Start running monitorSignals).  Steps of the two threads *)
(* interleave.  A step's type handler is an external call: it is split in  *)
(* dispatch, return and the append of the StepResult, so that a signal may *)
(* arrive while a step is in flight.  The append reads the slice and       *)
(* writes it back in two steps because the results slice is shared by the  *)
(* two threads without a lock.                                             *)
(*                                                                         *)
(* Three library calls are checked on their own, each under its own        *)
(* specification with the run parked: http.CheckWithRetry (SpecHTTP),      *)
(* inventory Matcher.matchPattern (SpecMatch) and the inventory handler    *)
(* Executor.executeInventoryStep (SpecInventory).                          *)
(***************************************************************************)
EXTENDS Integers, Sequences, FiniteSets, TLC

VARIABLES
    flow,        \* Executor.flow.Steps: the parsed step sequence
    pc,          \* position of the main thread in executeFlow
    idx,         \* index of the range loop of ExecuteWithContext
    executed,    \* the local map `executed` of ExecuteWithContext
    hasFailure,  \* the local flag `hasFailure` of ExecuteWithContext
    execErr,     \* the error returned by ExecuteWithContext
    retErr,      \* the error returned by executeFlow
    results,     \* Executor.results
    report,      \* the results handed to generateReport
    ctxDone,     \* CleanupManager.ctx is cancelled
    interrupted, \* CleanupManager.interrupted
    sigCh,       \* a signal is buffered in CleanupManager.cleanupCh
    sigSent,     \* the environment has sent its signal
    notifyOn,    \* signal.Notify is in force (until signal.Stop)
    monpc,       \* position of the monitorSignals goroutine
    cl,          \* per thread: the locals of its RunCleanup call
    pend,        \* per thread: the StepResult being appended
    exited,      \* the process has exited
    exitStatus,  \* its exit status
    hist,        \* history: handlers called, attempts failed, where the signal hit
    hc,          \* the frame of a call of http.CheckWithRetry checked on its own
    mt,          \* a call of inventory Matcher.matchPattern checked on its own
    inv,         \* a call of Executor.executeInventoryStep checked on its own
    ip,          \* a call of interpolator.Interpolate checked on its own
    pf,          \* a call of flow.ParseFlow checked on its own
    cmds         \* a call of terraform ExecuteMultipleWithContext checked on its own

vars == <<flow, pc, idx, executed, hasFailure, execErr, retErr, results, report,
          ctxDone, interrupted, sigCh, sigSent, notifyOn, monpc, cl, pend,
          exited, exitStatus, hist, hc, mt, inv, ip, pf, cmds>>

schedVars == <<idx, executed, hasFailure, execErr>>
sigVars   == <<interrupted, sigCh, sigSent, notifyOn>>
exitVars  == <<exited, exitStatus>>

\* the variables of a run
runVars   == <<flow, pc, idx, executed, hasFailure, execErr, retErr, results,
               report, ctxDone, interrupted, sigCh, sigSent, notifyOn, monpc,
               cl, pend, exited, exitStatus, hist>>

\* the library calls that are checked on their own, outside a run
libVars   == <<hc, mt, inv, ip, pf, cmds>>

----------------------------------------------------------------------------
(* Bounds and the flows the run is checked on                              *)

MaxSteps == 3

MaxSignalSteps == 2

\* the largest retry count CheckWithRetry is called with
MaxRetries == 3

\* the largest number of resources in a terraform state
MaxResources == 3

\* the largest number of entries under `expected.resources` of a step
MaxExpected == 2

\* the largest number of steps of a flow with a step of an unknown type
MaxTypedSteps == 2

\* the largest number of commands of a provisioning-command step
MaxCommands == 3

\* the largest number of pieces (text, placeholders) of a template
MaxPieces == 2

\* the largest number of steps of a flow file handed to ParseFlow
MaxParsedSteps == 2

StepNames == <<"s1", "s2", "s3", "s4", "s5">>

Whens == {"", "always", "on-success", "on-failure"}

Threads == {"main", "monitor"}

NoError == [kind |-> "nil", step |-> ""]

ExitInterrupt == 130

ExitFailure == 1

\* the status with which the Go runtime ends a process on an unrecovered panic
ExitPanic == 2

\* validateFlow accepts any non-empty step list; names are unique per the
\* data model and `after` is drawn from the names declared earlier.
StepsAt(i, types) ==
    [name : {StepNames[i]}, type : types, when : Whens,
     after : {""} \cup {StepNames[j] : j \in 1..(i - 1)}]

\* executor.go:136-151: the types the switch of executeStepWithContext knows
RecognizedTypes == {"terraform", "terraform-inventory", "http"}

\* the flows of n steps with types of the given set
RECURSIVE FlowsOfLen(_, _)
FlowsOfLen(n, types) ==
    IF n = 0 THEN {<<>>}
    ELSE {Append(f, s) : f \in FlowsOfLen(n - 1, types), s \in StepsAt(n, types)}

----------------------------------------------------------------------------
(* Pure helpers of the scheduler and of the cleanup pass                   *)

\* mutation: the on-failure test is lost
ShouldSkipOnSuccessOnly(step, failed) ==
    step.when = "on-success" /\ failed

\* mutation: the on-success test is lost
ShouldSkipOnFailureOnly(step, failed) ==
    step.when = "on-failure" /\ ~failed

\* executor.go:64-71
ShouldSkip(step, failed) ==
    \/ step.when = "on-success" /\ failed
    \/ step.when = "on-failure" /\ ~failed

\* mutation: the dependency is never looked up in the executed map
DepOKUnchecked(step, done) == TRUE

\* executor.go:104-108
DepOK(step, done) ==
    step.after = "" \/ step.after \in done

\* mutation: every step but an on-success one continues after its error
ContinuesUnlessOnSuccess(step) == step.when # "on-success"

\* executor.go:80
ContinuesOnError(step) == step.when = "always"

\* executor.go:106,165: both errors carry the step's name
StepError(step) == [kind |-> "step", step |-> step.name]

\* executor.go:59
CancelError == [kind |-> "cancelled", step |-> ""]

\* executor.go:127-159
StepResult(step, ok) == [StepName |-> step.name, Success |-> ok]

\* cleanup: executed[result.StepName] = true for every result
ExecutedFromResults(res) == {res[i].StepName : i \in 1..Len(res)}

\* mutation: the negation of the executed test is lost
RECURSIVE SelectAlwaysExecuted(_, _, _)
SelectAlwaysExecuted(f, done, i) ==
    IF i > Len(f) THEN <<>>
    ELSE IF f[i].when = "always" /\ f[i].name \in done
         THEN <<i>> \o SelectAlwaysExecuted(f, done, i + 1)
         ELSE SelectAlwaysExecuted(f, done, i + 1)

RECURSIVE SelectAlways(_, _, _)
SelectAlways(f, done, i) ==
    IF i > Len(f) THEN <<>>
    ELSE IF f[i].when = "always" /\ f[i].name \notin done
         THEN <<i>> \o SelectAlways(f, done, i + 1)
         ELSE SelectAlways(f, done, i + 1)

IdleCleanup ==
    [state |-> "idle", steps |-> <<>>, pos |-> 1, executed |-> {},
     expired |-> FALSE, errors |-> 0, ret |-> "none"]

NoPend == [snap |-> <<>>, res |-> [StepName |-> "", Success |-> TRUE]]

EmptyHist ==
    [dispatched |-> {}, depFailed |-> {}, handlerFailed |-> {}, duringRun |-> FALSE]

NoMatch ==
    [state |-> "idle", resources |-> <<>>, pattern |-> <<>>,
     result |-> [Matched |-> FALSE, Count |-> 0, Resources |-> <<>>,
                 Issues |-> <<>>, Mismatches |-> <<>>]]

NoParse ==
    [state |-> "idle", doc |-> <<>>, err |-> "", flow |-> <<>>]

\* the error a provisioning-command step returns; kind "failed" is
\* "command i/n failed: %w" (part_005:541), "cancelled" is "execution
\* cancelled: %w" (532), "command" the error of the single command
\* (executor.go:183), "none" "no command or commands specified" (195); cause
\* is the error it wraps: "exit", "empty" or "cancelled"
CommandError(kind, i, n, cause) == [kind |-> kind, i |-> i, n |-> n, cause |-> cause]

\* hit: the context was cancelled with a command in flight or about to start
NoCommands ==
    [state |-> "idle", command |-> "", commands |-> <<>>, i |-> 0, started |-> <<>>,
     failedAt |-> 0, cancelled |-> FALSE, hit |-> FALSE, success |-> FALSE,
     err |-> CommandError("nil", 0, 0, "")]

NoInterpolate ==
    [state |-> "idle", pieces |-> <<>>, outputs |-> <<>>, result |-> <<>>]

NoInventory ==
    [state |-> "idle", step |-> <<>>, tf |-> <<>>, err |-> "nil", found |-> <<>>]

NoCheck ==
    [state |-> "idle", expectedStatus |-> 0, retries |-> 0, i |-> 0,
     lastStatus |-> 0, lastErr |-> "nil", seen |-> <<>>, sleeps |-> 0,
     status |-> 0, err |-> "nil",
     cancelled |-> FALSE, lateRequests |-> 0, lateSleeps |-> 0,
     step |-> <<>>, delay |-> 0, slept |-> 0]

----------------------------------------------------------------------------
\* the state after NewExecutor, NewCleanupManager and Start (root.go:120-128)
Started ==
    /\ pc = "loop"
    /\ idx = 1
    /\ executed = {}
    /\ hasFailure = FALSE
    /\ execErr = NoError
    /\ retErr = "nil"
    /\ results = <<>>
    /\ report = <<>>
    /\ ctxDone = FALSE
    /\ interrupted = FALSE
    /\ sigCh = FALSE
    /\ sigSent = FALSE
    /\ notifyOn = TRUE
    /\ monpc = "select"
    /\ cl = [t \in Threads |-> IdleCleanup]
    /\ pend = [t \in Threads |-> NoPend]
    /\ exited = FALSE
    /\ exitStatus = 0
    /\ hist = EmptyHist

\* no library call is being checked on its own
LibIdle ==
    /\ hc = NoCheck /\ mt = NoMatch /\ inv = NoInventory /\ ip = NoInterpolate
    /\ pf = NoParse /\ cmds = NoCommands

\* the runs without a signal, every step of a recognized type
Init ==
    /\ \E n \in 1..MaxSteps : flow \in FlowsOfLen(n, {"terraform"})
    /\ Started
    /\ LibIdle

\* the runs with a signal: no step declares `after`
InitSignal ==
    /\ \E n \in 1..MaxSignalSteps : flow \in FlowsOfLen(n, {"terraform"})
    /\ \A i \in 1..Len(flow) : flow[i].after = ""
    /\ Started
    /\ LibIdle

\* the runs with steps of a type the switch does not know
InitTyped ==
    /\ \E n \in 1..MaxTypedSteps : flow \in FlowsOfLen(n, {"terraform", "teraform"})
    /\ Started
    /\ LibIdle
----------------------------------------------------------------------------
(* The scheduler: Executor.ExecuteWithContext, one action per way a loop   *)
(* iteration can go                                                        *)

CurStep == flow[idx]

AtLoopHead == ~exited /\ pc = "loop"

\* executor.go:55,89: the range loop is exhausted, return nil
SchedReturnNil ==
    /\ AtLoopHead
    /\ idx > Len(flow)
    /\ pc' = "succeeded"
    /\ UNCHANGED <<flow, libVars, schedVars, retErr, results, report, ctxDone, sigVars,
                   monpc, cl, pend, exitVars, hist>>

\* executor.go:57-61
SchedCancelled ==
    /\ AtLoopHead
    /\ idx <= Len(flow)
    /\ ctxDone
    /\ execErr' = CancelError
    /\ pc' = "failed"
    /\ UNCHANGED <<flow, libVars, idx, executed, hasFailure, retErr, results, report,
                   ctxDone, sigVars, monpc, cl, pend, exitVars, hist>>

\* mutation: a skipped step is entered in the executed map
SchedSkipMarksExecuted ==
    /\ AtLoopHead
    /\ idx <= Len(flow)
    /\ ~ctxDone
    /\ ShouldSkip(CurStep, hasFailure)
    /\ idx' = idx + 1
    /\ executed' = executed \cup {CurStep.name}
    /\ UNCHANGED <<flow, libVars, pc, hasFailure, execErr, retErr, results,
                   report, ctxDone, sigVars, monpc, cl, pend, exitVars, hist>>

\* executor.go:63-71
SchedSkip ==
    /\ AtLoopHead
    /\ idx <= Len(flow)
    /\ ~ctxDone
    /\ ShouldSkip(CurStep, hasFailure)
    /\ idx' = idx + 1
    /\ UNCHANGED <<flow, libVars, pc, executed, hasFailure, execErr, retErr, results,
                   report, ctxDone, sigVars, monpc, cl, pend, exitVars, hist>>

\* executor.go:135-155: a handler returns nil or an error; the default
\* branch of the switch sets the error without calling a handler
HandlerOutcomes(step) ==
    IF step.type \in RecognizedTypes THEN BOOLEAN ELSE {FALSE}

\* executor.go:75-86: what the loop does once executeStepWithContext returned
AfterAttempt(step, ok) ==
    /\ executed' = executed \cup {step.name}
    /\ IF ok
       THEN /\ idx' = idx + 1
            /\ pc' = "loop"
            /\ UNCHANGED <<hasFailure, execErr>>
       ELSE /\ hasFailure' = TRUE
            /\ IF ContinuesOnError(step)
               THEN /\ idx' = idx + 1
                    /\ pc' = "loop"
                    /\ UNCHANGED execErr
               ELSE /\ execErr' = StepError(step)
                    /\ pc' = "failed"
                    /\ UNCHANGED idx

\* executor.go:73-86 with 104-108: the dependency check fails; the function
\* returns before a StepResult is built
SchedDepFail ==
    /\ AtLoopHead
    /\ idx <= Len(flow)
    /\ ~ctxDone
    /\ ~ShouldSkip(CurStep, hasFailure)
    /\ ~DepOK(CurStep, executed)
    /\ AfterAttempt(CurStep, FALSE)
    /\ hist' = [hist EXCEPT !.depFailed = @ \cup {<<CurStep.name, "sched">>}]
    /\ UNCHANGED <<flow, libVars, retErr, results, report, ctxDone, sigVars, monpc, cl,
                   pend, exitVars>>

\* mutation: the loop head does not look at the context
SchedDispatchUnchecked ==
    /\ AtLoopHead
    /\ idx <= Len(flow)
    /\ ~ShouldSkip(CurStep, hasFailure)
    /\ DepOK(CurStep, executed)
    /\ pc' = "step"
    /\ hist' = [hist EXCEPT !.dispatched = @ \cup {<<CurStep.name, "sched">>}]
    /\ UNCHANGED <<flow, libVars, schedVars, retErr, results, report, ctxDone, sigVars,
                   monpc, cl, pend, exitVars>>

\* executor.go:73-74 with 126-152: the type handler is called
SchedDispatch ==
    /\ AtLoopHead
    /\ idx <= Len(flow)
    /\ ~ctxDone
    /\ ~ShouldSkip(CurStep, hasFailure)
    /\ DepOK(CurStep, executed)
    /\ pc' = "step"
    /\ hist' = [hist EXCEPT !.dispatched = @ \cup {<<CurStep.name, "sched">>}]
    /\ UNCHANGED <<flow, libVars, schedVars, retErr, results, report, ctxDone, sigVars,
                   monpc, cl, pend, exitVars>>

\* executor.go:135-159: the handler returns ok or an error; the append reads
\* the slice
SchedHandlerReturn(ok) ==
    /\ ~exited
    /\ pc = "step"
    /\ ok \in HandlerOutcomes(CurStep)
    /\ pend' = [pend EXCEPT !["main"] =
                   [snap |-> results, res |-> StepResult(CurStep, ok)]]
    /\ hist' = IF ok THEN hist
               ELSE [hist EXCEPT !.handlerFailed = @ \cup {<<CurStep.name, "sched">>}]
    /\ pc' = "append"
    /\ UNCHANGED <<flow, libVars, schedVars, retErr, results, report, ctxDone, sigVars,
                   monpc, cl, exitVars>>

\* executor.go:135-152: the handler panics; the panic unwinds
\* executeStepWithContext and ExecuteWithContext (no StepResult, no entry in
\* the executed map) up to the deferred function of executeFlow, whose
\* recover() returns it (root.go:129-130)
SchedHandlerPanic ==
    /\ ~exited
    /\ pc = "step"
    /\ CurStep.type \in RecognizedTypes
    /\ pc' = "recovered"
    /\ UNCHANGED <<flow, libVars, schedVars, retErr, results, report, ctxDone, sigVars,
                   monpc, cl, pend, exitVars, hist>>

\* executor.go:159-170 and 75-86: the append writes the slice back, the
\* function returns and the loop acts on the error
SchedAppend ==
    /\ ~exited
    /\ pc = "append"
    /\ results' = Append(pend["main"].snap, pend["main"].res)
    /\ pend' = [pend EXCEPT !["main"] = NoPend]
    /\ AfterAttempt(CurStep, pend["main"].res.Success)
    /\ UNCHANGED <<flow, libVars, retErr, report, ctxDone, sigVars, monpc, cl, exitVars,
                   hist>>
----------------------------------------------------------------------------
(* The cleanup pass: CleanupManager.RunCleanup, run by thread t            *)

InCleanup(t) ==
    /\ ~exited
    /\ \/ t = "main" /\ pc \in {"cleanup", "panicCleanup"}
       \/ t = "monitor" /\ monpc = "cleanup"

CleanupStep(t) == flow[cl[t].steps[cl[t].pos]]

\* cleanup 178-205: the fresh timeout context, the executed map rebuilt from
\* the results, the selection; an empty selection returns nil at once
StartedCleanup(res) ==
    LET sel == SelectAlways(flow, ExecutedFromResults(res), 1)
    IN  [state    |-> IF sel = <<>> THEN "returned" ELSE "loop",
         steps    |-> sel,
         pos      |-> 1,
         executed |-> ExecutedFromResults(res),
         expired  |-> FALSE,
         errors   |-> 0,
         ret      |-> IF sel = <<>> THEN "nil" ELSE "none"]

\* mutation: the collected cleanup errors are dropped, the pass returns nil
CleanupResultNil(errors) == "nil"

\* cleanup 241-251: "cleanup failed: %d step(s) failed" iff an error was collected
CleanupResult(errors) == IF errors > 0 THEN "failed" ELSE "nil"

\* cleanup 241-251: the loop is over
CleanupReturn(t) ==
    /\ InCleanup(t)
    /\ cl[t].state = "loop"
    /\ cl[t].pos > Len(cl[t].steps)
    /\ cl' = [cl EXCEPT ![t].state = "returned",
                        ![t].ret = CleanupResult(cl[t].errors)]
    /\ UNCHANGED <<flow, libVars, pc, schedVars, retErr, results, report, ctxDone,
                   sigVars, monpc, pend, exitVars, hist>>

\* cleanup 211-218: the timeout context is done before a step
CleanupTimedOut(t) ==
    /\ InCleanup(t)
    /\ cl[t].state = "loop"
    /\ cl[t].pos <= Len(cl[t].steps)
    /\ cl[t].expired
    /\ cl' = [cl EXCEPT ![t].state = "returned", ![t].ret = "timeout"]
    /\ UNCHANGED <<flow, libVars, pc, schedVars, retErr, results, report, ctxDone,
                   sigVars, monpc, pend, exitVars, hist>>

\* cleanup 229-238 with executor.go:104-108: the dependency check of
\* ExecuteStepWithContext fails against the cleanup's own executed map
CleanupDepFail(t) ==
    /\ InCleanup(t)
    /\ cl[t].state = "loop"
    /\ cl[t].pos <= Len(cl[t].steps)
    /\ ~cl[t].expired
    /\ ~DepOK(CleanupStep(t), cl[t].executed)
    /\ cl' = [cl EXCEPT ![t].errors = @ + 1,
                        ![t].executed = @ \cup {CleanupStep(t).name},
                        ![t].pos = @ + 1]
    /\ hist' = [hist EXCEPT !.depFailed = @ \cup {<<CleanupStep(t).name, t>>}]
    /\ UNCHANGED <<flow, libVars, pc, schedVars, retErr, results, report, ctxDone,
                   sigVars, monpc, pend, exitVars>>

\* mutation: the step is started without looking at the timeout context
CleanupDispatchNoDeadline(t) ==
    /\ InCleanup(t)
    /\ cl[t].state = "loop"
    /\ cl[t].pos <= Len(cl[t].steps)
    /\ DepOK(CleanupStep(t), cl[t].executed)
    /\ cl' = [cl EXCEPT ![t].state = "step"]
    /\ hist' = [hist EXCEPT !.dispatched = @ \cup {<<CleanupStep(t).name, t>>}]
    /\ UNCHANGED <<flow, libVars, pc, schedVars, retErr, results, report, ctxDone,
                   sigVars, monpc, pend, exitVars>>

\* cleanup 229 with executor.go:126-152: the type handler is called
CleanupDispatch(t) ==
    /\ InCleanup(t)
    /\ cl[t].state = "loop"
    /\ cl[t].pos <= Len(cl[t].steps)
    /\ ~cl[t].expired
    /\ DepOK(CleanupStep(t), cl[t].executed)
    /\ cl' = [cl EXCEPT ![t].state = "step"]
    /\ hist' = [hist EXCEPT !.dispatched = @ \cup {<<CleanupStep(t).name, t>>}]
    /\ UNCHANGED <<flow, libVars, pc, schedVars, retErr, results, report, ctxDone,
                   sigVars, monpc, pend, exitVars>>

\* executor.go:135-159: the handler returns; the append reads the slice
CleanupHandlerReturn(t, ok) ==
    /\ InCleanup(t)
    /\ cl[t].state = "step"
    /\ ok \in HandlerOutcomes(CleanupStep(t))
    /\ pend' = [pend EXCEPT ![t] =
                   [snap |-> results, res |-> StepResult(CleanupStep(t), ok)]]
    /\ hist' = IF ok THEN hist
               ELSE [hist EXCEPT !.handlerFailed = @ \cup {<<CleanupStep(t).name, t>>}]
    /\ cl' = [cl EXCEPT ![t].state = "append"]
    /\ UNCHANGED <<flow, libVars, pc, schedVars, retErr, results, report, ctxDone,
                   sigVars, monpc, exitVars>>

\* executor.go:159-170 and cleanup 230-238
CleanupAppend(t) ==
    /\ InCleanup(t)
    /\ cl[t].state = "append"
    /\ results' = Append(pend[t].snap, pend[t].res)
    /\ pend' = [pend EXCEPT ![t] = NoPend]
    /\ cl' = [cl EXCEPT ![t].errors = IF pend[t].res.Success THEN @ ELSE @ + 1,
                        ![t].executed = @ \cup {CleanupStep(t).name},
                        ![t].pos = @ + 1,
                        ![t].state = "loop"]
    /\ UNCHANGED <<flow, libVars, pc, schedVars, retErr, report, ctxDone, sigVars, monpc,
                   exitVars, hist>>

\* cleanup 179: the deadline of context.WithTimeout passes
CleanupExpire(t) ==
    /\ InCleanup(t)
    /\ cl[t].state \in {"loop", "step", "append"}
    /\ ~cl[t].expired
    /\ cl' = [cl EXCEPT ![t].expired = TRUE]
    /\ UNCHANGED <<flow, libVars, pc, schedVars, retErr, results, report, ctxDone,
                   sigVars, monpc, pend, exitVars, hist>>

----------------------------------------------------------------------------
(* The main thread after the scheduler: executeFlow and main               *)

\* root.go:141-150: showErrorDetails and generateReport on the failure path
MainReportFailure ==
    /\ ~exited
    /\ pc = "failed"
    /\ report' = results
    /\ pc' = "cleanupStart"
    /\ UNCHANGED <<flow, libVars, schedVars, retErr, results, ctxDone, sigVars, monpc,
                   cl, pend, exitVars, hist>>

\* root.go:153: cleanupMgr.RunCleanup()
MainCleanupStart ==
    /\ ~exited
    /\ pc = "cleanupStart"
    /\ cl' = [cl EXCEPT !["main"] = StartedCleanup(results)]
    /\ pc' = "cleanup"
    /\ UNCHANGED <<flow, libVars, schedVars, retErr, results, report, ctxDone, sigVars,
                   monpc, pend, exitVars, hist>>

\* root.go:153-158: RunCleanup returned, return err
MainReturnErr ==
    /\ ~exited
    /\ pc = "cleanup"
    /\ cl["main"].state = "returned"
    /\ retErr' = "exec"
    /\ pc' = "stop"
    /\ UNCHANGED <<flow, libVars, schedVars, results, report, ctxDone, sigVars, monpc,
                   cl, pend, exitVars, hist>>

\* root.go:161-168: generateReport on the success path; its error is returned
MainReportSuccess(failedReport) ==
    /\ ~exited
    /\ pc = "succeeded"
    /\ report' = results
    /\ retErr' = IF failedReport THEN "report" ELSE "nil"
    /\ pc' = "stop"
    /\ UNCHANGED <<flow, libVars, schedVars, results, ctxDone, sigVars, monpc, cl, pend,
                   exitVars, hist>>

\* mutation: the deferred function re-panics without running the cleanup
MainRecoverNoCleanup ==
    /\ ~exited
    /\ pc = "recovered"
    /\ pc' = "panicStop"
    /\ UNCHANGED <<flow, libVars, schedVars, retErr, results, report, ctxDone, sigVars,
                   monpc, cl, pend, exitVars, hist>>

\* root.go:129-132: the deferred function recovered a panic and calls
\* cleanupMgr.RunCleanup()
MainRecover ==
    /\ ~exited
    /\ pc = "recovered"
    /\ cl' = [cl EXCEPT !["main"] = StartedCleanup(results)]
    /\ pc' = "panicCleanup"
    /\ UNCHANGED <<flow, libVars, schedVars, retErr, results, report, ctxDone, sigVars,
                   monpc, pend, exitVars, hist>>

\* root.go:132-133: RunCleanup returned, panic(r)
MainRepanic ==
    /\ ~exited
    /\ pc = "panicCleanup"
    /\ cl["main"].state = "returned"
    /\ pc' = "panicStop"
    /\ UNCHANGED <<flow, libVars, schedVars, retErr, results, report, ctxDone, sigVars,
                   monpc, cl, pend, exitVars, hist>>

\* root.go:128: the deferred cleanupMgr.Stop() runs while the panic unwinds
MainPanicStop ==
    /\ ~exited
    /\ pc = "panicStop"
    /\ ctxDone' = TRUE
    /\ notifyOn' = FALSE
    /\ pc' = "crash"
    /\ UNCHANGED <<flow, libVars, schedVars, retErr, results, report, interrupted, sigCh,
                   sigSent, monpc, cl, pend, exitVars, hist>>

\* nothing above executeFlow recovers: the runtime ends the process
MainCrash ==
    /\ ~exited
    /\ pc = "crash"
    /\ exited' = TRUE
    /\ exitStatus' = ExitPanic
    /\ UNCHANGED <<flow, libVars, pc, schedVars, retErr, results, report, ctxDone,
                   sigVars, monpc, cl, pend, hist>>

\* root.go:128 with cleanup Stop: the deferred cleanupMgr.Stop()
MainStop ==
    /\ ~exited
    /\ pc = "stop"
    /\ ctxDone' = TRUE
    /\ notifyOn' = FALSE
    /\ pc' = "exit"
    /\ UNCHANGED <<flow, libVars, schedVars, retErr, results, report, interrupted, sigCh,
                   sigSent, monpc, cl, pend, exitVars, hist>>

\* main.go:9-13: os.Exit(1) on an error, the normal exit otherwise
MainExit ==
    /\ ~exited
    /\ pc = "exit"
    /\ exited' = TRUE
    /\ exitStatus' = IF retErr = "nil" THEN 0 ELSE ExitFailure
    /\ UNCHANGED <<flow, libVars, pc, schedVars, retErr, results, report, ctxDone,
                   sigVars, monpc, cl, pend, hist>>

----------------------------------------------------------------------------
(* The signal listener: CleanupManager.monitorSignals                      *)

\* the environment delivers SIGINT or SIGTERM to the notified channel
Signal ==
    /\ ~exited
    /\ notifyOn
    /\ ~sigSent
    /\ sigSent' = TRUE
    /\ sigCh' = TRUE
    /\ UNCHANGED <<flow, libVars, pc, schedVars, retErr, results, report, ctxDone,
                   interrupted, notifyOn, monpc, cl, pend, exitVars, hist>>

\* monitorSignals: case sig := <-cm.cleanupCh; cm.interrupted = true
MonRecv ==
    /\ ~exited
    /\ monpc = "select"
    /\ sigCh
    /\ sigCh' = FALSE
    /\ interrupted' = TRUE
    /\ monpc' = "received"
    /\ hist' = [hist EXCEPT !.duringRun = pc \in {"loop", "step", "append"}]
    /\ UNCHANGED <<flow, libVars, pc, schedVars, retErr, results, report, ctxDone,
                   sigSent, notifyOn, cl, pend, exitVars>>

\* monitorSignals: cm.cancel()
MonCancel ==
    /\ ~exited
    /\ monpc = "received"
    /\ ctxDone' = TRUE
    /\ monpc' = "cancelled"
    /\ UNCHANGED <<flow, libVars, pc, schedVars, retErr, results, report, sigVars, cl,
                   pend, exitVars, hist>>

\* monitorSignals: cm.RunCleanup()
MonCleanupStart ==
    /\ ~exited
    /\ monpc = "cancelled"
    /\ cl' = [cl EXCEPT !["monitor"] = StartedCleanup(results)]
    /\ monpc' = "cleanup"
    /\ UNCHANGED <<flow, libVars, pc, schedVars, retErr, results, report, ctxDone,
                   sigVars, pend, exitVars, hist>>

\* monitorSignals: os.Exit(130)
MonExit ==
    /\ ~exited
    /\ monpc = "cleanup"
    /\ cl["monitor"].state = "returned"
    /\ exited' = TRUE
    /\ exitStatus' = ExitInterrupt
    /\ UNCHANGED <<flow, libVars, pc, schedVars, retErr, results, report, ctxDone,
                   sigVars, monpc, cl, pend, hist>>

\* monitorSignals: case <-cm.ctx.Done(): return
MonReturn ==
    /\ ~exited
    /\ monpc = "select"
    /\ ctxDone
    /\ monpc' = "returned"
    /\ UNCHANGED <<flow, libVars, pc, schedVars, retErr, results, report, ctxDone,
                   sigVars, cl, pend, exitVars, hist>>

----------------------------------------------------------------------------
(* Runs in which no signal arrives: the main thread alone moves, and the   *)
(* listener returns once Stop has cancelled the context.  A type handler   *)
(* called by the scheduler may panic.                                      *)
Next ==
    \/ SchedReturnNil
    \/ SchedSkip
    \/ SchedDepFail
    \/ SchedDispatch
    \/ \E ok \in BOOLEAN : SchedHandlerReturn(ok)
    \/ SchedHandlerPanic
    \/ SchedAppend
    \/ MainReportFailure
    \/ MainCleanupStart
    \/ MainReturnErr
    \/ \E failedReport \in BOOLEAN : MainReportSuccess(failedReport)
    \/ MainRecover
    \/ MainRepanic
    \/ MainPanicStop
    \/ MainCrash
    \/ MainStop
    \/ MainExit
    \/ CleanupReturn("main")
    \/ CleanupTimedOut("main")
    \/ CleanupDepFail("main")
    \/ CleanupDispatch("main")
    \/ \E ok \in BOOLEAN : CleanupHandlerReturn("main", ok)
    \/ CleanupAppend("main")
    \/ CleanupExpire("main")
    \/ MonReturn

Spec == Init /\ [][Next]_vars

\* the runs of the flows with steps of an unknown type
SpecTyped == InitTyped /\ [][Next]_vars

(* Runs in which one SIGINT/SIGTERM may arrive at any moment.              *)
NextSignal ==
    \/ SchedReturnNil
    \/ SchedCancelled
    \/ SchedSkip
    \/ SchedDispatch
    \/ \E ok \in BOOLEAN : SchedHandlerReturn(ok)
    \/ SchedAppend
    \/ MainReportFailure
    \/ MainCleanupStart
    \/ MainReturnErr
    \/ \E failedReport \in BOOLEAN : MainReportSuccess(failedReport)
    \/ MainStop
    \/ MainExit
    \/ \E t \in Threads : CleanupReturn(t)
    \/ \E t \in Threads : CleanupTimedOut(t)
    \/ \E t \in Threads : CleanupDispatch(t)
    \/ \E t \in Threads, ok \in BOOLEAN : CleanupHandlerReturn(t, ok)
    \/ \E t \in Threads : CleanupAppend(t)
    \/ \E t \in Threads : CleanupExpire(t)
    \/ Signal
    \/ MonRecv
    \/ MonCancel
    \/ MonCleanupStart
    \/ MonExit
    \/ MonReturn

SpecSignal == InitSignal /\ [][NextSignal]_vars
----------------------------------------------------------------------------
(* http.CheckWithRetry (main.go:25-63) on its own: the endpoint answers    *)
(* each request with an error or with a status of its choice.              *)

RequestError == [err |-> TRUE, status |-> 0]

Response(status) == [err |-> FALSE, status |-> status]

\* the run is not started: only the library call moves
Parked == flow = <<>> /\ Started

Digits == <<"0", "1", "2", "3", "4", "5", "6", "7", "8", "9">>

\* the number spelled by a run of digits
RECURSIVE Atoi(_)
Atoi(digits) ==
    LET last == (CHOOSE d \in 1..10 : Digits[d] = digits[Len(digits)]) - 1
    IN  IF Len(digits) = 1 THEN last
        ELSE 10 * Atoi(SubSeq(digits, 1, Len(digits) - 1)) + last

\* time.ParseDuration for a text of one unsigned whole number and one unit
\* (s, m or h), in seconds; "0" needs no unit, every other text of the
\* model ("", a number without a unit, a word) is an error
ParseDuration(text) ==
    IF text = <<"0">> THEN [err |-> FALSE, v |-> 0]
    ELSE IF Len(text) < 2
            \/ text[Len(text)] \notin {"s", "m", "h"}
            \/ \E k \in 1..(Len(text) - 1) : \A d \in 1..10 : Digits[d] # text[k]
    THEN [err |-> TRUE, v |-> 0]
    ELSE LET unit == text[Len(text)]
         IN  [err |-> FALSE,
              v |-> Atoi(SubSeq(text, 1, Len(text) - 1))
                    * (CASE unit = "s" -> 1 [] unit = "m" -> 60 [] unit = "h" -> 3600)]

DefaultRetries == 3

DefaultDelay == 10

\* mutation: the retry count of the step is passed on as it is
executeHTTPStepNoDefault(step) ==
    [retries |-> step.Retries,
     delay   |-> IF ParseDuration(step.Delay).err THEN DefaultDelay
                 ELSE ParseDuration(step.Delay).v]

\* executor.go:289-300: the retries and the delay (in seconds) that
\* executeHTTPStep hands to CheckWithRetry
executeHTTPStep(step) ==
    [retries |-> IF step.Retries = 0 THEN DefaultRetries ELSE step.Retries,
     delay   |-> IF ParseDuration(step.Delay).err THEN DefaultDelay
                 ELSE ParseDuration(step.Delay).v]

\* the call of CheckWithRetry, by executeHTTPStep for a step (its retries:
\* an unvalidated int, 0 when unset; its delay: unset, "5s", "2m", "0", a
\* number without a unit, a word) or by another caller with the retries as
\* they are
InitHTTP ==
    /\ Parked
    /\ mt = NoMatch
    /\ inv = NoInventory
    /\ ip = NoInterpolate
    /\ pf = NoParse
    /\ cmds = NoCommands
    \* expectedStatus: 0 is the unset field
    /\ \E e \in {0, 200}, r \in (-1)..MaxRetries,
          d \in {<<>>, <<"5", "s">>, <<"2", "m">>, <<"0">>, <<"7">>, <<"a", "s">>} :
           LET step == [Retries |-> r, Delay |-> d]
               call(st, args) == [NoCheck EXCEPT !.state = "loop", !.expectedStatus = e,
                                                 !.step = st, !.retries = args.retries,
                                                 !.delay = args.delay]
           IN  \/ hc = call(step, executeHTTPStep(step))
               \/ d = <<>> /\ hc = call(<<>>, [retries |-> r, delay |-> 0])

\* mutation: the final attempt also sleeps and continues
MoreAttemptsInclusive(i, retries) == i <= retries

\* main.go:41,53: `if i < retries`
MoreAttempts(i, retries) == i < retries

\* mutation: only the expected status is accepted, also when none is expected
StatusAcceptedExact(expectedStatus, status) == status = expectedStatus

\* main.go:52: the negation of `expectedStatus > 0 && resp.StatusCode != expectedStatus`
StatusAccepted(expectedStatus, status) ==
    ~(expectedStatus > 0 /\ status # expectedStatus)

\* main.go:42-43,54-55: time.Sleep(delay); continue
SleepAndContinue(c) ==
    [c EXCEPT !.sleeps = @ + 1, !.i = @ + 1, !.slept = @ + c.delay,
              !.lateSleeps = IF c.cancelled THEN @ + 1 ELSE @]

\* a return statement of CheckWithRetry
Returned(c, status, err) ==
    [c EXCEPT !.state = "returned", !.status = status, !.err = err]

InCheckLoop == hc.state = "loop" /\ hc.i <= hc.retries

\* main.go:38-46: client.Get returns an error
HTTPRequestFails ==
    /\ InCheckLoop
    /\ LET c == [hc EXCEPT !.seen = Append(@, RequestError),
                           !.lastErr = "request",
                           !.lateRequests = IF hc.cancelled THEN @ + 1 ELSE @]
       IN  hc' = IF MoreAttempts(hc.i, hc.retries)
                 THEN SleepAndContinue(c)
                 ELSE Returned(c, 0, "request")
    /\ UNCHANGED <<runVars, mt, inv, ip, pf, cmds>>

\* main.go:38,48-60: client.Get returns a response
HTTPResponds(status) ==
    /\ InCheckLoop
    /\ LET c == [hc EXCEPT !.seen = Append(@, Response(status)),
                           !.lastStatus = status,
                           !.lateRequests = IF hc.cancelled THEN @ + 1 ELSE @]
       IN  hc' = IF StatusAccepted(hc.expectedStatus, status)
                 THEN Returned(c, status, "nil")
                 ELSE IF MoreAttempts(hc.i, hc.retries)
                      THEN SleepAndContinue(c)
                      ELSE Returned(c, status, "status")
    /\ UNCHANGED <<runVars, mt, inv, ip, pf, cmds>>

\* main.go:33,62: the loop condition is false, return lastStatus, lastErr
HTTPLoopExit ==
    /\ hc.state = "loop"
    /\ hc.i > hc.retries
    /\ hc' = Returned(hc, hc.lastStatus, hc.lastErr)
    /\ UNCHANGED <<runVars, mt, inv, ip, pf, cmds>>

NextHTTP ==
    \/ HTTPRequestFails
    \/ \E status \in {200, 404, 500} : HTTPResponds(status)
    \/ HTTPLoopExit

SpecHTTP == InitHTTP /\ [][NextHTTP]_vars

\* the call runs on: client.Get returns within its 30 s timeout and
\* time.Sleep returns
SpecHTTPLive == SpecHTTP /\ WF_vars(NextHTTP)

\* executor.go:147-151 with cleanup 283-305: the context of the run is
\* cancelled while executeHTTPStep, which is not handed the context, is
\* inside CheckWithRetry
HTTPCancel ==
    /\ hc.state = "loop"
    /\ ~hc.cancelled
    /\ hc' = [hc EXCEPT !.cancelled = TRUE]
    /\ UNCHANGED <<runVars, mt, inv, ip, pf, cmds>>

\* an http-check during which the run may be cancelled
SpecHTTPCancel == InitHTTP /\ [][NextHTTP \/ HTTPCancel]_vars
----------------------------------------------------------------------------
(* inventory.Matcher.matchPattern (part_005:83-168) on its own.  Strings   *)
(* that the code inspects character by character (types, names, attribute *)
(* paths, formatted values) are sequences of one-character strings.        *)

\* "aws_subnet" and "aws_vpc"
Subnet == <<"s", "n">>

Vpc == <<"v">>

Types == {Subnet, Vpc}

\* the names of the resources: "public", "private", "public2" and a name
\* that starts with a dot
Public == <<"a">>

Private == <<"b">>

\* a *int field
NilInt == [set |-> FALSE, v |-> 0]

IntPtr(n) == [set |-> TRUE, v |-> n]

\* the values of an attribute: interface{} holding a string, a bool, a
\* number, a nested map or nil
StrVal(chars) == [t |-> "string", v |-> chars]

FloatVal(n) == [t |-> "float64", v |-> n]

MapVal(m) == [t |-> "map", v |-> m]

NilVal == [t |-> "nil", v |-> <<>>]

\* a []interface{} value
ArrVal(items) == [t |-> "array", v |-> items]

NoAttributes == <<>>

\* the attributes the state holds for a resource of the given name:
\* "public" has cidr "x" and tags {Name: "x"}, "private" has cidr "y" and
\* enabled false, "public2" has enabled "true" (a string), the name with
\* the dot has enabled true
AttributesOf(name) ==
    IF name = Public
    THEN (<<"c">> :> StrVal(<<"x">>)) @@ (<<"t">> :> MapVal(<<"n">> :> StrVal(<<"x">>)))
    ELSE IF name = Private
         THEN (<<"c">> :> StrVal(<<"y">>)) @@ (<<"e">> :> [t |-> "bool", v |-> FALSE])
         ELSE IF name = <<"a", "b">>
              THEN <<"e">> :> StrVal(<<"t", "r", "u", "e">>)
              ELSE <<"e">> :> [t |-> "bool", v |-> TRUE]

\* part_005:50-57; Address is Type.Name
Resource(type, name) ==
    [Type |-> type, Name |-> name, Attributes |-> AttributesOf(name)]

AllResources ==
    {Resource(type, name) :
        type \in Types, name \in {Public, Private, <<"a", "b">>, <<".", "a">>}}

\* the resource lists of a state: no address occurs twice
ResourceLists ==
    UNION {{l \in [1..n -> AllResources] :
               \A i, j \in 1..n : l[i] = l[j] => i = j} : n \in 0..MaxResources}

\* the attribute assertions of a pattern: none, cidr = "x", tags.Name = "x",
\* cidr.Name = "x", enabled = true (a YAML boolean); at most one, so that
\* the iteration order of the Go map plays no part
PatternAttributes ==
    {NoAttributes,
     <<"c">> :> StrVal(<<"x">>),
     <<"t", ".", "n">> :> StrVal(<<"x">>),
     <<"c", ".", "n">> :> StrVal(<<"x">>),
     <<"e">> :> [t |-> "bool", v |-> TRUE]}

\* part_005:10-17
Patterns ==
    [Type : Types,
     \* unset, "*", ".*", an exact name, a prefix with "*"
     Name : {<<>>, <<"*">>, <<".", "*">>, Public, <<"a", "*">>},
     Count : {NilInt, IntPtr(1), IntPtr(2)},
     MinCount : {NilInt, IntPtr(2)},
     MaxCount : {NilInt, IntPtr(1), IntPtr(3)},
     Attributes : PatternAttributes]

\* the characters regexp.QuoteMeta escapes
MetaChars == {"\\", ".", "+", "*", "?", "(", ")", "|", "[", "]", "{", "}", "^", "$"}

\* regexp.QuoteMeta
RECURSIVE QuoteMeta(_)
QuoteMeta(str) ==
    IF str = <<>> THEN <<>>
    ELSE (IF Head(str) \in MetaChars THEN <<"\\", Head(str)>> ELSE <<Head(str)>>)
         \o QuoteMeta(Tail(str))

\* mutation: nothing is replaced
ReplaceNone(str, old, new) == str

\* strings.ReplaceAll for a non-empty old
RECURSIVE ReplaceAll(_, _, _)
ReplaceAll(str, old, new) ==
    IF Len(str) < Len(old) THEN str
    ELSE IF SubSeq(str, 1, Len(old)) = old
         THEN new \o ReplaceAll(SubSeq(str, Len(old) + 1, Len(str)), old, new)
         ELSE <<Head(str)>> \o ReplaceAll(Tail(str), old, new)

\* regexp matching of "^" + re + "$" for the expressions the matcher builds:
\* escaped characters, plain characters and ".", each possibly starred
RECURSIVE RegexMatch(_, _)
RegexMatch(re, str) ==
    IF re = <<>> THEN str = <<>>
    ELSE LET escaped == Head(re) = "\\"
             atomLen == IF escaped THEN 2 ELSE 1
             accepts(ch) ==
                 IF escaped THEN ch = re[2]
                 ELSE IF Head(re) = "." THEN TRUE
                 ELSE ch = Head(re)
             starred == Len(re) > atomLen /\ re[atomLen + 1] = "*"
             rest == SubSeq(re, atomLen + (IF starred THEN 2 ELSE 1), Len(re))
         IN  IF starred
             THEN \/ RegexMatch(rest, str)
                  \/ str # <<>> /\ accepts(Head(str)) /\ RegexMatch(re, Tail(str))
             ELSE str # <<>> /\ accepts(Head(str)) /\ RegexMatch(rest, Tail(str))

\* mutation: the type is not compared
TypeMatchesAny(patternType, type) == TRUE

\* part_005:91,104: typeRegex.MatchString(res.Type)
TypeMatches(patternType, type) == RegexMatch(QuoteMeta(patternType), type)

\* part_005:92-99,104: nameRegex.MatchString(res.Name); nameRegexStr is
\* the source of nameRegex between "^" and "$"
NameMatches(patternName, name) ==
    LET namePattern  == IF patternName = <<>> THEN <<".", "*">> ELSE patternName
        nameRegexStr == ReplaceAll(QuoteMeta(namePattern), <<"\\", "*">>, <<".", "*">>)
    IN  RegexMatch(nameRegexStr, name)

\* part_005:102-107
Selects(match, res) ==
    TypeMatches(match.Type, res.Type) /\ NameMatches(match.Name, res.Name)

\* strings.Split(path, ".")
RECURSIVE Split(_)
Split(path) ==
    IF \A k \in 1..Len(path) : path[k] # "." THEN <<path>>
    ELSE LET d == CHOOSE k \in 1..Len(path) :
                      path[k] = "." /\ \A j \in 1..(k - 1) : path[j] # "."
         IN  <<SubSeq(path, 1, d - 1)>> \o Split(SubSeq(path, d + 1, Len(path)))

\* part_005:171-193: [err, val]
RECURSIVE getNestedAttributeFrom(_, _)
getNestedAttributeFrom(current, parts) ==
    IF Head(parts) \notin DOMAIN current THEN [err |-> TRUE, val |-> NilVal]
    ELSE IF Len(parts) = 1 THEN [err |-> FALSE, val |-> current[Head(parts)]]
    ELSE IF current[Head(parts)].t # "map" THEN [err |-> TRUE, val |-> NilVal]
    ELSE getNestedAttributeFrom(current[Head(parts)].v, Tail(parts))

getNestedAttribute(attrs, path) == getNestedAttributeFrom(attrs, Split(path))

\* strconv.Itoa for a number that is not negative
RECURSIVE Itoa(_)
Itoa(n) ==
    IF n < 10 THEN <<Digits[n + 1]>>
    ELSE Itoa(n \div 10) \o <<Digits[(n % 10) + 1]>>

\* the order of two keys of lower-case letters
RECURSIVE KeyLess(_, _)
KeyLess(a, b) ==
    IF a = <<>> THEN b # <<>>
    ELSE IF b = <<>> THEN FALSE
    ELSE IF a[1] = b[1] THEN KeyLess(Tail(a), Tail(b))
    ELSE LET letters == <<"a", "b", "c", "d", "e", "f", "g", "h", "i", "j", "k",
                          "l", "m", "n", "o", "p", "q", "r", "s", "t", "u", "v",
                          "w", "x", "y", "z">>
         IN  (CHOOSE k \in 1..26 : letters[k] = a[1])
             < (CHOOSE k \in 1..26 : letters[k] = b[1])

\* fmt prints the keys of a map in sorted order
RECURSIVE SortedKeys(_)
SortedKeys(keys) ==
    IF keys = {} THEN <<>>
    ELSE LET least == CHOOSE k \in keys : \A o \in keys \ {k} : KeyLess(k, o)
         IN  <<least>> \o SortedKeys(keys \ {least})

\* fmt.Sprintf("%v", value) for the values above; the numbers are not
\* negative, and a float64 without a fraction prints as the integer does
RECURSIVE Fmt(_)
RECURSIVE FmtEntries(_, _)
RECURSIVE FmtItems(_)
FmtEntries(m, keys) ==
    IF keys = <<>> THEN <<>>
    ELSE Head(keys) \o <<":">> \o Fmt(m[Head(keys)])
         \o (IF Len(keys) = 1 THEN <<>> ELSE <<" ">> \o FmtEntries(m, Tail(keys)))

FmtItems(items) ==
    IF items = <<>> THEN <<>>
    ELSE Fmt(Head(items))
         \o (IF Len(items) = 1 THEN <<>> ELSE <<" ">> \o FmtItems(Tail(items)))

Fmt(value) ==
    CASE value.t = "string"  -> value.v
      [] value.t = "bool"    -> IF value.v THEN <<"t", "r", "u", "e">>
                                ELSE <<"f", "a", "l", "s", "e">>
      [] value.t = "int"     -> Itoa(value.v)
      [] value.t = "float64" -> Itoa(value.v)
      [] value.t = "nil"     -> <<"<", "n", "i", "l", ">">>
      [] value.t = "map"     ->
            <<"m", "a", "p", "[">> \o FmtEntries(value.v, SortedKeys(DOMAIN value.v))
            \o <<"]">>
      [] value.t = "array"   -> <<"[">> \o FmtItems(value.v) \o <<"]">>

\* part_005:196-222
valuesEqual(expected, actual) ==
    IF expected.t = "string" THEN expected.v = Fmt(actual)
    ELSE IF expected.t = "float64" /\ actual.t \in {"float64", "int"}
         THEN expected.v = actual.v
    ELSE IF expected.t = "bool" /\ actual.t = "bool"
         THEN expected.v = actual.v
    ELSE Fmt(expected) = Fmt(actual)

Issue(kind, want, found, res, path) ==
    [kind |-> kind, want |-> want, found |-> found,
     resource |-> <<res.Type, res.Name>>, attribute |-> path]

NoResource == [Type |-> <<>>, Name |-> <<>>]

\* mutation: the count constraints are an else-if chain
CountIssuesFirstOnly(match, count) ==
    IF match.Count.set /\ count # match.Count.v
    THEN <<Issue("exact", match.Count.v, count, NoResource, <<>>)>>
    ELSE IF match.MinCount.set /\ count < match.MinCount.v
    THEN <<Issue("min", match.MinCount.v, count, NoResource, <<>>)>>
    ELSE IF match.MaxCount.set /\ count > match.MaxCount.v
    THEN <<Issue("max", match.MaxCount.v, count, NoResource, <<>>)>>
    ELSE <<>>

\* part_005:111-122: the issues of the count constraints, in this order
CountIssues(match, count) ==
    (IF match.Count.set /\ count # match.Count.v
     THEN <<Issue("exact", match.Count.v, count, NoResource, <<>>)>> ELSE <<>>)
    \o (IF match.MinCount.set /\ count < match.MinCount.v
        THEN <<Issue("min", match.MinCount.v, count, NoResource, <<>>)>> ELSE <<>>)
    \o (IF match.MaxCount.set /\ count > match.MaxCount.v
        THEN <<Issue("max", match.MaxCount.v, count, NoResource, <<>>)>> ELSE <<>>)

\* mutation: an attribute that cannot be resolved is passed over
AttributeIssuesSilent(res, path, expectedVal) ==
    LET got == getNestedAttribute(res.Attributes, path)
    IN  IF got.err THEN <<>>
        ELSE IF ~valuesEqual(expectedVal, got.val)
             THEN <<Issue("mismatch", 0, 0, res, path) @@ [actual |-> got.val]>>
             ELSE <<>>

\* part_005:135-157: the issue of one attribute assertion on one resource,
\* with the Actual of the AttributeMismatch that is appended with it
AttributeIssues(res, path, expectedVal) ==
    LET got == getNestedAttribute(res.Attributes, path)
    IN  IF got.err THEN <<Issue("notfound", 0, 0, res, path) @@ [actual |-> NilVal]>>
        ELSE IF ~valuesEqual(expectedVal, got.val)
             THEN <<Issue("mismatch", 0, 0, res, path) @@ [actual |-> got.val]>>
             ELSE <<>>

\* part_005:125-160: the issues of the attribute assertions, resource by
\* resource
RECURSIVE ResourceIssues(_, _)
ResourceIssues(matched, match) ==
    IF matched = <<>> THEN <<>>
    ELSE (IF match.Attributes = NoAttributes THEN <<>>
          ELSE LET path == CHOOSE q \in DOMAIN match.Attributes : TRUE
               IN  AttributeIssues(Head(matched), path, match.Attributes[path]))
         \o ResourceIssues(Tail(matched), match)

\* part_005:162-165
Verdict(match, count, issues) ==
    /\ Len(issues) = 0
    /\ ~match.Count.set \/ count = match.Count.v
    /\ ~match.MinCount.set \/ count >= match.MinCount.v
    /\ ~match.MaxCount.set \/ count <= match.MaxCount.v

\* part_005:83-168
matchPattern(resources, match) ==
    LET matched == SelectSeq(resources, LAMBDA res : Selects(match, res))
        count   == Len(matched)
        issues  == CountIssues(match, count) \o ResourceIssues(matched, match)
    IN  [Matched    |-> Verdict(match, count, issues),
         Count      |-> count,
         Resources  |-> matched,
         Issues     |-> issues,
         Mismatches |-> SelectSeq(issues,
                            LAMBDA x : x.kind \in {"notfound", "mismatch"})]

InitMatch ==
    /\ Parked
    /\ hc = NoCheck
    /\ inv = NoInventory
    /\ ip = NoInterpolate
    /\ pf = NoParse
    /\ cmds = NoCommands
    /\ \E l \in ResourceLists, m \in Patterns :
           mt = [NoMatch EXCEPT !.state = "called", !.resources = l,
                                !.pattern = m]

\* NewMatcher(resources).matchPattern(pattern, match) returns
MatchPatternReturns ==
    /\ mt.state = "called"
    /\ mt' = [mt EXCEPT !.state = "returned",
                        !.result = matchPattern(mt.resources, mt.pattern)]
    /\ UNCHANGED <<runVars, hc, inv, ip, pf, cmds>>

SpecMatch == InitMatch /\ [][MatchPatternReturns]_vars
----------------------------------------------------------------------------
(* Executor.executeInventoryStep (executor.go:198-266) on its own          *)

\* types.go:51-55: an entry of expected.resources; 0 is the unset count
ExpectedResource == [Type : Types, MinCount : {0, 2}, MaxCount : {0, 1}]

\* types.go:30,45-47: the field `expected`, nil when the key is absent
NoExpected == [set |-> FALSE, Resources |-> <<>>]

ExpectedLists ==
    {NoExpected} \cup
    {[set |-> TRUE, Resources |-> l] :
        l \in UNION {[1..n -> ExpectedResource] : n \in 0..MaxExpected}}

\* types.go:58-63: a value of the map `expected_resources`
MatchConfig(count, min, max) ==
    [Count |-> count, MinCount |-> min, MaxCount |-> max,
     Attributes |-> NoAttributes]

\* types.go:35: the map `expected_resources`: absent, {"aws_vpc.public":
\* count 1}, {"aws_subnet.*": min_count 2}
ExpectedResourcesMaps ==
    {<<>>,
     (Vpc \o <<".">> \o Public) :> MatchConfig(IntPtr(1), NilInt, NilInt),
     (Subnet \o <<".", "*">>) :> MatchConfig(NilInt, IntPtr(2), NilInt)}

\* types.go:21-36: the fields of a Step that the inventory handler can read
InventorySteps ==
    [Expected : ExpectedLists, FailOnMissing : BOOLEAN, FailOnExtra : BOOLEAN,
     ExpectedResources : ExpectedResourcesMaps]

\* terraform.GetState: an error, or the managed resources of the state
TerraformStates ==
    {[err |-> TRUE, resources |-> <<>>]} \cup
    {[err |-> FALSE, resources |-> l] : l \in ResourceLists}

\* state.go:87-95
GetResourcesByType(resources, type) ==
    SelectSeq(resources, LAMBDA r : r.Type = type)

\* mutation: an entry without min and max is not checked for existence
ExpectedErrorNoExistence(step, expected, count) ==
    IF expected.MinCount > 0 /\ count < expected.MinCount /\ step.FailOnMissing
    THEN "atLeast"
    ELSE IF expected.MaxCount > 0 /\ count > expected.MaxCount /\ step.FailOnExtra
    THEN "atMost"
    ELSE "nil"

\* executor.go:220-241: the checks of one entry, "nil" when they pass
ExpectedError(step, expected, count) ==
    IF expected.MinCount > 0 /\ count < expected.MinCount /\ step.FailOnMissing
    THEN "atLeast"
    ELSE IF expected.MaxCount > 0 /\ count > expected.MaxCount /\ step.FailOnExtra
    THEN "atMost"
    ELSE IF expected.MinCount = 0 /\ expected.MaxCount = 0 /\ count = 0
            /\ step.FailOnMissing
    THEN "notFound"
    ELSE "nil"

\* executor.go:219-248: the loop over the entries; it returns at the first
\* entry that fails
RECURSIVE ValidateExpected(_, _, _, _)
ValidateExpected(step, entries, resources, found) ==
    IF entries = <<>> THEN [err |-> "nil", found |-> found]
    ELSE LET byType == GetResourcesByType(resources, Head(entries).Type)
             err == ExpectedError(step, Head(entries), Len(byType))
         IN  IF err # "nil" THEN [err |-> err, found |-> <<>>]
             ELSE ValidateExpected(step, Tail(entries), resources, found \o byType)

\* mutation: resources of unnamed types are looked for without the flag
UnexpectedFoundUnflagged(step, resources) ==
    \E k \in 1..Len(resources) :
        \A e \in 1..Len(step.Expected.Resources) :
            step.Expected.Resources[e].Type # resources[k].Type

\* executor.go:251-263
UnexpectedFound(step, resources) ==
    /\ step.FailOnExtra
    /\ \E k \in 1..Len(resources) :
           \A e \in 1..Len(step.Expected.Resources) :
               step.Expected.Resources[e].Type # resources[k].Type

\* executor.go:198-266: [err, found]
executeInventoryStep(step, tf) ==
    IF ~step.Expected.set THEN [err |-> "notSpecified", found |-> <<>>]
    ELSE IF tf.err THEN [err |-> "getState", found |-> <<>>]
    ELSE LET checked == ValidateExpected(step, step.Expected.Resources,
                                         tf.resources, <<>>)
         IN  IF checked.err # "nil" THEN checked
             ELSE IF UnexpectedFound(step, tf.resources)
                  THEN [err |-> "unexpected", found |-> <<>>]
                  ELSE checked

InitInventory ==
    /\ Parked
    /\ hc = NoCheck
    /\ mt = NoMatch
    /\ ip = NoInterpolate
    /\ pf = NoParse
    /\ cmds = NoCommands
    /\ \E step \in InventorySteps, tf \in TerraformStates :
           inv = [NoInventory EXCEPT !.state = "called", !.step = step,
                                     !.tf = tf]

\* executeInventoryStep returns to executeStepWithContext (executor.go:139-146)
InventoryStepReturns ==
    /\ inv.state = "called"
    /\ LET ret == executeInventoryStep(inv.step, inv.tf)
       IN  inv' = [inv EXCEPT !.state = "returned", !.err = ret.err,
                              !.found = ret.found]
    /\ UNCHANGED <<runVars, hc, mt, ip, pf, cmds>>

SpecInventory == InitInventory /\ [][InventoryStepReturns]_vars
----------------------------------------------------------------------------
(* interpolator.Interpolate (interpolator.go:20-39) with                   *)
(* terraform.GetOutputValue (part_007:45-144) on its own.  A template is a *)
(* sequence of characters in which the nine characters "${output." that    *)
(* open a placeholder are written as one element.                          *)

Prefix == "${output."

\* the output snapshot {a: {b: "x", l: ["p", "q"]}, r: [10, 20, 30], s: "v"}
SampleOutputs ==
    (<<"a">> :> MapVal((<<"b">> :> StrVal(<<"x">>))
                       @@ (<<"l">> :> ArrVal(<<StrVal(<<"p">>), StrVal(<<"q">>)>>))))
    @@ (<<"r">> :> ArrVal(<<FloatVal(10), FloatVal(20), FloatVal(30)>>))
    @@ (<<"s">> :> StrVal(<<"v">>))

\* the pieces a template is put together from: text, a placeholder
\* ${output.<segments>[<index>]} (index -1: none), the placeholder ${output.r[1].b}, an open
\* placeholder without "}" and the text "${output.}"
TemplatePieces ==
    {[kind |-> "text", segs |-> <<>>, index |-> -1]}
    \cup [kind  : {"placeholder"},
          segs  : {<<<<"a">>>>, <<<<"a">>, <<"b">>>>, <<<<"a">>, <<"l">>>>, <<<<"r">>>>,
                   <<<<"s">>>>, <<<<"m">>>>, <<<<"s">>, <<"b">>>>},
          index : {-1, 0, 1, 3}]
    \cup {[kind |-> k, segs |-> <<>>, index |-> -1] :
              k \in {"indexThenKey", "open", "emptyPath"}}

RECURSIVE JoinDots(_)
JoinDots(segs) ==
    IF Len(segs) = 1 THEN Head(segs)
    ELSE Head(segs) \o <<".">> \o JoinDots(Tail(segs))

\* the characters of a piece
PieceText(piece) ==
    CASE piece.kind = "text" -> <<"x">>
      [] piece.kind = "placeholder" ->
            <<Prefix>> \o JoinDots(piece.segs)
            \o (IF piece.index >= 0 THEN <<"[", Digits[piece.index + 1], "]">> ELSE <<>>)
            \o <<"}">>
      [] piece.kind = "indexThenKey" ->
            <<Prefix, "r", "[", "1", "]", ".", "b", "}">>
      [] piece.kind = "open" -> <<Prefix, "a">>
      [] piece.kind = "emptyPath" -> <<Prefix, "}">>

RECURSIVE TemplateText(_)
TemplateText(pieces) ==
    IF pieces = <<>> THEN <<>>
    ELSE PieceText(Head(pieces)) \o TemplateText(Tail(pieces))

\* the characters of a matched text, the opening written out
RECURSIVE Spell(_)
Spell(text) ==
    IF text = <<>> THEN <<>>
    ELSE (IF Head(text) = Prefix
          THEN <<"$", "{", "o", "u", "t", "p", "u", "t", ".">>
          ELSE <<Head(text)>>)
         \o Spell(Tail(text))

\* part_007:102-109: the 0-based position of the first "[", -1 if none
findArrayIndex(path) ==
    IF \A k \in 1..Len(path) : path[k] # "[" THEN -1
    ELSE (CHOOSE k \in 1..Len(path) :
              path[k] = "[" /\ \A j \in 1..(k - 1) : path[j] # "[") - 1

\* part_007:112-121: "[" digits "]" at the front of a text that ends with
\* "]" gives the number, anything else -1 (paths carry no sign)
parseArrayIndex(str) ==
    IF Len(str) < 3 \/ str[1] # "[" \/ str[Len(str)] # "]" THEN -1
    ELSE LET n == CHOOSE k \in 0..(Len(str) - 1) :
                      /\ \A j \in 2..(k + 1) : \E d \in 1..10 : Digits[d] = str[j]
                      /\ \A d \in 1..10 : Digits[d] # str[k + 2]
         IN  IF n = 0 \/ str[n + 2] # "]" THEN -1
             ELSE Atoi(SubSeq(str, 2, n + 1))

\* part_007:124-144: the non-empty runs between dots
RECURSIVE splitPath(_)
splitPath(path) ==
    IF path = <<>> THEN <<>>
    ELSE IF Head(path) = "." THEN splitPath(Tail(path))
    ELSE LET n == CHOOSE k \in 1..Len(path) :
                      /\ \A j \in 1..k : path[j] # "."
                      /\ k = Len(path) \/ path[k + 1] = "."
         IN  <<SubSeq(path, 1, n)>> \o splitPath(SubSeq(path, n + 1, Len(path)))

\* part_007:76-98: the descent through nested maps
RECURSIVE Descend(_, _)
Descend(current, parts) ==
    IF parts = <<>> THEN [err |-> TRUE, val |-> NilVal]
    ELSE IF Head(parts) \notin DOMAIN current THEN [err |-> TRUE, val |-> NilVal]
    ELSE IF Len(parts) = 1 THEN [err |-> FALSE, val |-> current[Head(parts)]]
    ELSE IF current[Head(parts)].t # "map" THEN [err |-> TRUE, val |-> NilVal]
    ELSE Descend(current[Head(parts)].v, Tail(parts))

\* mutation: the last element whatever the index
ElementAtLast(arr, index) == arr[Len(arr)]

\* part_007:72: arr[index]
ElementAt(arr, index) == arr[index + 1]

\* part_007:45-99: [err, val]
RECURSIVE GetOutputValue(_, _)
GetOutputValue(outputs, path) ==
    IF outputs.isNil THEN [err |-> TRUE, val |-> NilVal]
    ELSE LET at == findArrayIndex(path)
         IN  IF at >= 0
             THEN LET key   == SubSeq(path, 1, at)
                      index == parseArrayIndex(SubSeq(path, at + 1, Len(path)))
                      got   == GetOutputValue(outputs, key)
                  IN  IF index < 0 THEN [err |-> TRUE, val |-> NilVal]
                      ELSE IF got.err THEN got
                      ELSE IF got.val.t # "array" THEN [err |-> TRUE, val |-> NilVal]
                      ELSE IF index >= Len(got.val.v) THEN [err |-> TRUE, val |-> NilVal]
                      ELSE [err |-> FALSE, val |-> ElementAt(got.val.v, index)]
             ELSE Descend(outputs.vals, splitPath(path))

\* interpolator.go:42-74; the numbers of the snapshots are whole
RECURSIVE formatValue(_)
RECURSIVE formatItems(_)
formatItems(items) ==
    IF items = <<>> THEN <<>>
    ELSE IF Len(items) = 1 THEN formatValue(items[1])
    ELSE formatValue(Head(items)) \o <<",">> \o formatItems(Tail(items))

formatValue(value) ==
    CASE value.t = "string"  -> value.v
      [] value.t = "bool"    -> IF value.v THEN <<"t", "r", "u", "e">>
                                ELSE <<"f", "a", "l", "s", "e">>
      [] value.t \in {"int", "float64"} -> Itoa(value.v)
      [] value.t = "array"   -> formatItems(value.v)
      [] OTHER               -> Fmt(value)

\* mutation: an unresolved placeholder is replaced by the empty string
UnresolvedDropped(match) == <<>>

\* interpolator.go:32-35: return match
Unresolved(match) == match

\* interpolator.go:13,21: ReplaceAllStringFunc with \$\{output\.([^}]+)\}:
\* the leftmost opening that is followed by one or more characters other
\* than "}" and then by "}" is a match; the scan goes on behind it
\* the callback (21-38) replaces a match by its formatted value, or by itself
RECURSIVE Interpolate(_, _)
Interpolate(template, outputs) ==
    IF template = <<>> THEN <<>>
    ELSE IF /\ Head(template) = Prefix
            /\ \E k \in 3..Len(template) :
                   template[k] = "}" /\ \A j \in 2..(k - 1) : template[j] # "}"
    THEN LET close == CHOOSE k \in 3..Len(template) :
                          template[k] = "}" /\ \A j \in 2..(k - 1) : template[j] # "}"
             match == SubSeq(template, 1, close)
             got   == GetOutputValue(outputs, Spell(SubSeq(match, 2, close - 1)))
         IN  (IF got.err THEN Unresolved(match) ELSE formatValue(got.val))
             \o Interpolate(SubSeq(template, close + 1, Len(template)), outputs)
    ELSE <<Head(template)>> \o Interpolate(Tail(template), outputs)

InitInterpolate ==
    /\ Parked
    /\ hc = NoCheck
    /\ mt = NoMatch
    /\ inv = NoInventory
    /\ pf = NoParse
    /\ cmds = NoCommands
    \* Executor.outputs: the nil map, the empty map, the sample
    /\ \E n \in 0..MaxPieces, nil \in BOOLEAN, vals \in {<<>>, SampleOutputs} :
           /\ nil => vals = <<>>
           /\ \E t \in [1..n -> TemplatePieces] :
                  ip = [NoInterpolate EXCEPT !.state = "called", !.pieces = t,
                            !.outputs = [isNil |-> nil, vals |-> vals]]

\* Interpolate(template, outputs) returns
InterpolateReturns ==
    /\ ip.state = "called"
    /\ ip' = [ip EXCEPT !.state = "returned",
                        !.result = Interpolate(TemplateText(ip.pieces), ip.outputs)]
    /\ UNCHANGED <<runVars, hc, mt, inv, pf, cmds>>

SpecInterpolate == InitInterpolate /\ [][InterpolateReturns]_vars
----------------------------------------------------------------------------
(* flow.ParseFlow and validateFlow (parser.go:12-50) on their own.  A path *)
(* is a sequence of characters; the paths of the flow files carry no ".",  *)
(* ".." or doubled separator for filepath.Clean to remove.                 *)

\* the steps of a flow file: any name, `after` any name or none
ParsedSteps == [name : {"s1", "s2"}, after : {"", "s1", "s2"}]

\* what yaml.Unmarshal may find in the file
FlowDocuments ==
    [readable   : BOOLEAN,
     wellFormed : BOOLEAN,
     dir        : {<<".">>, <<"d">>},
     name       : {"", "n"},
     workingDir : {<<>>, <<"w">>, <<"/", "w">>},
     steps      : UNION {[1..n -> ParsedSteps] : n \in 0..MaxParsedSteps}]

\* filepath.Clean of a path that needs no rewriting: "" becomes "."
Clean(path) == IF path = <<>> THEN <<".">> ELSE path

\* parser.go:39-50: the error, "" for nil
validateFlow(f) ==
    IF f.Name = "" THEN "flow name is required"
    ELSE IF f.WorkingDir = <<>> THEN "working_dir is required"
    ELSE IF Len(f.Steps) = 0 THEN "at least one step is required"
    ELSE ""

\* parser.go:12-37: [err, flow]
ParseFlow(doc) ==
    LET \* filepath.Join: empty elements are ignored, the result is cleaned
        joined == IF doc.workingDir = <<>> THEN Clean(doc.dir)
                  ELSE IF doc.dir = <<".">> THEN Clean(doc.workingDir)
                  ELSE Clean(doc.dir \o <<"/">> \o doc.workingDir)
        isAbs  == doc.workingDir # <<>> /\ Head(doc.workingDir) = "/"
        f == [Name |-> doc.name,
              WorkingDir |-> Clean(IF isAbs THEN doc.workingDir ELSE joined),
              Steps |-> doc.steps]
    IN  IF ~doc.readable THEN [err |-> "failed to read flow file", flow |-> <<>>]
        ELSE IF ~doc.wellFormed THEN [err |-> "failed to parse YAML", flow |-> <<>>]
        ELSE IF validateFlow(f) # "" THEN [err |-> "invalid flow", flow |-> <<>>]
        ELSE [err |-> "", flow |-> f]

InitParse ==
    /\ Parked
    /\ hc = NoCheck
    /\ mt = NoMatch
    /\ inv = NoInventory
    /\ ip = NoInterpolate
    /\ cmds = NoCommands
    /\ \E d \in FlowDocuments : pf = [NoParse EXCEPT !.state = "called", !.doc = d]

\* ParseFlow(path) returns
ParseFlowReturns ==
    /\ pf.state = "called"
    /\ pf' = [pf EXCEPT !.state = "returned",
                        !.err = ParseFlow(pf.doc).err,
                        !.flow = ParseFlow(pf.doc).flow]
    /\ UNCHANGED <<runVars, hc, mt, inv, ip, cmds>>

SpecParse == InitParse /\ [][ParseFlowReturns]_vars
----------------------------------------------------------------------------
(* Executor.executeTerraformStepWithContext (executor.go:173-196) with the *)
(* adapter's ExecuteMultipleWithContext (part_005:525-545) on their own    *)

InitCommands ==
    /\ Parked
    /\ hc = NoCheck
    /\ mt = NoMatch
    /\ inv = NoInventory
    /\ ip = NoInterpolate
    /\ pf = NoParse
    \* a command text after interpolation: none, a terraform command or a
    \* text without a field
    /\ \E c \in {"", "apply", " "}, n \in 0..MaxCommands :
         \E l \in [1..n -> {"apply", " "}] :
           cmds = [NoCommands EXCEPT !.state = "called", !.command = c,
                                     !.commands = l]

\* mutation: the call does not look at the context after the command
ExecuteWithContextUnchecked(command, exitOk, done) ==
    IF command = " " THEN "empty"
    ELSE IF exitOk THEN "nil" ELSE "exit"

\* the adapter's ExecuteWithContext(ctx, command), part_005:275-389, as the
\* kind of its error: "empty command" for a text without a field (276-279);
\* otherwise the process runs (exitOk: it exits with 0) and "command
\* cancelled" is reported when the context is done after it (350-352), else
\* "terraform command failed" on an error (354-388), else nil
ExecuteWithContext(command, exitOk, done) ==
    IF command = " " THEN "empty"
    ELSE IF done THEN "cancelled"
    ELSE IF exitOk THEN "nil" ELSE "exit"

\* executor.go:137-139 with 157-159: the handler returns err and the
\* StepResult gets Success = (err == nil)
StepReturns(c, err) ==
    [c EXCEPT !.state = "returned", !.err = err, !.success = err.kind = "nil"]

\* executor.go:180-195: the single command has precedence over the list
TerraformStepEnters ==
    /\ cmds.state = "called"
    /\ cmds' = IF cmds.command # "" THEN [cmds EXCEPT !.state = "single"]
               ELSE IF Len(cmds.commands) > 0 THEN [cmds EXCEPT !.state = "loop"]
               ELSE StepReturns(cmds, CommandError("none", 0, 0, ""))
    /\ UNCHANGED <<runVars, hc, mt, inv, ip, pf>>

\* executor.go:182-183: the single command; the context may be cancelled
\* while it runs (arrives)
SingleCommandReturns(exitOk, arrives) ==
    /\ cmds.state = "single"
    /\ arrives => ~cmds.cancelled /\ cmds.command # " "
    /\ LET done == cmds.cancelled \/ arrives
           kind == ExecuteWithContext(cmds.command, exitOk, done)
           c    == [cmds EXCEPT !.cancelled = done,
                                !.hit = done /\ cmds.command # " "]
       IN  cmds' = StepReturns(c, IF kind = "nil" THEN CommandError("nil", 0, 0, "")
                                  ELSE CommandError("command", 0, 0, kind))
    /\ UNCHANGED <<runVars, hc, mt, inv, ip, pf>>

\* the context of the run is cancelled before a command or between two
CommandsCancel ==
    /\ cmds.state \in {"single", "loop"}
    /\ ~cmds.cancelled
    /\ cmds' = [cmds EXCEPT !.cancelled = TRUE]
    /\ UNCHANGED <<runVars, hc, mt, inv, ip, pf>>

\* part_005:530-534: the context is done at the head of an iteration
CommandsReturnCancelled ==
    /\ cmds.state = "loop"
    /\ cmds.i < Len(cmds.commands)
    /\ cmds.cancelled
    /\ cmds' = StepReturns([cmds EXCEPT !.hit = TRUE],
                           CommandError("cancelled", 0, 0, "cancelled"))
    /\ UNCHANGED <<runVars, hc, mt, inv, ip, pf>>

\* mutation: the head of an iteration does not look at the context
CommandRunsUnchecked(exitOk, arrives) ==
    /\ cmds.state = "loop"
    /\ cmds.i < Len(cmds.commands)
    /\ arrives => ~cmds.cancelled /\ cmds.commands[cmds.i + 1] # " "
    /\ LET command == cmds.commands[cmds.i + 1]
           done    == cmds.cancelled \/ arrives
           kind    == ExecuteWithContext(command, exitOk, done)
           c       == [cmds EXCEPT !.started = Append(@, [ordinal |-> cmds.i + 1,
                                                         cancelled |-> cmds.cancelled]),
                                   !.cancelled = done,
                                   !.hit = done /\ command # " "]
       IN  cmds' = IF kind = "nil" THEN [c EXCEPT !.i = @ + 1]
                   ELSE StepReturns([c EXCEPT !.failedAt = cmds.i + 1],
                                    CommandError("failed", cmds.i + 1,
                                                 Len(cmds.commands), kind))
    /\ UNCHANGED <<runVars, hc, mt, inv, ip, pf>>

\* part_005:530-542: the context is not done, the command is executed (the
\* context may be cancelled while it runs); on an error the function
\* returns "command i+1/n failed", otherwise the loop goes on
CommandRuns(exitOk, arrives) ==
    /\ cmds.state = "loop"
    /\ cmds.i < Len(cmds.commands)
    /\ ~cmds.cancelled
    /\ arrives => cmds.commands[cmds.i + 1] # " "
    /\ LET command == cmds.commands[cmds.i + 1]
           kind    == ExecuteWithContext(command, exitOk, arrives)
           c       == [cmds EXCEPT !.started = Append(@, [ordinal |-> cmds.i + 1,
                                                         cancelled |-> cmds.cancelled]),
                                   !.cancelled = arrives,
                                   !.hit = arrives]
       IN  cmds' = IF kind = "nil" THEN [c EXCEPT !.i = @ + 1]
                   ELSE StepReturns([c EXCEPT !.failedAt = cmds.i + 1],
                                    CommandError("failed", cmds.i + 1,
                                                 Len(cmds.commands), kind))
    /\ UNCHANGED <<runVars, hc, mt, inv, ip, pf>>

\* part_005:528,544: the list is exhausted, return nil
CommandsLoopExit ==
    /\ cmds.state = "loop"
    /\ cmds.i = Len(cmds.commands)
    /\ cmds' = StepReturns(cmds, CommandError("nil", 0, 0, ""))
    /\ UNCHANGED <<runVars, hc, mt, inv, ip, pf>>

NextCommands ==
    \/ TerraformStepEnters
    \/ \E exitOk, arrives \in BOOLEAN : SingleCommandReturns(exitOk, arrives)
    \/ CommandsCancel
    \/ CommandsReturnCancelled
    \/ \E exitOk, arrives \in BOOLEAN : CommandRuns(exitOk, arrives)
    \/ CommandsLoopExit

SpecCommands == InitCommands /\ [][NextCommands]_vars
----------------------------------------------------------------------------
(* Vocabulary of the properties                                            *)

Last(seq) == seq[Len(seq)]

\* the attempt of the step named n by the scheduler failed
SchedFailed(n) == <<n, "sched">> \in hist.depFailed \cup hist.handlerFailed

AnySchedFailure == \E i \in 1..Len(flow) : SchedFailed(flow[i].name)

\* the type handler of the step named n was called by somebody
Dispatched(n) == \E by \in {"sched"} \cup Threads : <<n, by>> \in hist.dispatched

\* the step named n was attempted: its handler was called or its dependency
\* check failed
Attempted(n) ==
    \E by \in {"sched"} \cup Threads : <<n, by>> \in hist.dispatched \cup hist.depFailed

HasResult(n) == \E k \in 1..Len(results) : results[k].StepName = n

SchedDispatches == {d \in hist.dispatched : d[2] = "sched"}

\* the scheduler is at the boundary of a step and the context is live
AtStep == ~exited /\ pc = "loop" /\ idx <= Len(flow) /\ ~ctxDone

\* in this transition an attempt of the scheduler comes back with an error
SchedFailsNow ==
    \/ /\ AtStep
       /\ <<CurStep.name, "sched">> \in hist'.depFailed
       /\ <<CurStep.name, "sched">> \notin hist.depFailed
    \/ /\ ~exited
       /\ pc = "append"
       /\ pc' # "append"
       /\ ~pend["main"].res.Success

----------------------------------------------------------------------------
(* C1: a step that is not when: always fails and a later step is           *)
(* when: always.                                                           *)

\* the main thread's cleanup pass found its timeout expired at a step declared
\* no later than step j, so step j was not reached
TimedOutBefore(j) ==
    /\ cl["main"].ret = "timeout"
    /\ cl["main"].steps[cl["main"].pos] <= j

\* the `after` of step j is unset, or names a step that has a StepResult or
\* is itself when: always (and so is attempted earlier in the same pass)
DepMet(j) ==
    \/ flow[j].after = ""
    \/ HasResult(flow[j].after)
    \/ \E b \in 1..(j - 1) : flow[b].name = flow[j].after /\ flow[b].when = "always"

FailedThenAlways(i, j) ==
    /\ i < j
    /\ flow[i].when # "always"
    /\ SchedFailed(flow[i].name)
    /\ flow[j].when = "always"

EndsWithErrorOf(i) ==
    /\ execErr = StepError(flow[i])
    /\ retErr = "exec"
    /\ exitStatus = ExitFailure

\* C1 as stated: whenever a step that is not when: always has failed and a
\* later step is when: always, the run ends with the always step executed,
\* its StepResult recorded, and the first step's error as the run's error.
C1_AlwaysStepRunsRecorded ==
    exited =>
        \A i, j \in 1..Len(flow) :
            FailedThenAlways(i, j) =>
                /\ Dispatched(flow[j].name)
                /\ HasResult(flow[j].name)
                /\ EndsWithErrorOf(i)

\* C1 amended: in a run without a signal the run ends with the first step's
\* error, and the always step is executed by the cleanup pass and recorded
\* unless the cleanup timeout expired before the pass reached it or its
\* `after` dependency is unmet.
C1_AlwaysStepRunsUnlessTimeoutOrDep ==
    exited =>
        \A i, j \in 1..Len(flow) :
            FailedThenAlways(i, j) =>
                /\ EndsWithErrorOf(i)
                /\ (~TimedOutBefore(j) /\ DepMet(j)) =>
                       /\ <<flow[j].name, "main">> \in hist.dispatched
                       /\ HasResult(flow[j].name)

C1_Witness ==
    /\ exited
    /\ \E i, j \in 1..Len(flow) :
           /\ FailedThenAlways(i, j)
           /\ flow[j].after # ""
           /\ <<flow[j].name, "main">> \in hist.dispatched
           /\ HasResult(flow[j].name)
           /\ EndsWithErrorOf(i)

----------------------------------------------------------------------------
(* C2: an on-failure step reached while nothing has failed is skipped.     *)

\* C2: from a step boundary at a when: on-failure step with no failed attempt
\* so far, the only transition moves to the next step without calling the
\* handler and without appending a StepResult.
C2_OnFailureSkipped ==
    [][ (AtStep /\ CurStep.when = "on-failure" /\ ~AnySchedFailure) =>
            /\ idx' = idx + 1
            /\ pc' = "loop"
            /\ results' = results
            /\ hist' = hist
            /\ executed' = executed
            /\ execErr' = execErr ]_vars

\* the three-step example: step 1 succeeded, step 2 (on-failure) is absent
\* from the results, step 3 ran
C2_Witness ==
    /\ Len(flow) = 3
    /\ flow[2].when = "on-failure"
    /\ pc = "succeeded"
    /\ results = <<StepResult(flow[1], TRUE), StepResult(flow[3], TRUE)>>
    /\ ~Attempted(flow[2].name)

----------------------------------------------------------------------------
(* C3: the failure of a step that is not when: always halts the scheduler. *)

\* C3: when the attempt of a step that is not when: always fails, the
\* scheduler returns the error carrying that step's name, and once it has
\* returned an error it calls no further handler.
C3_FailureHaltsScheduler ==
    [][ /\ (SchedFailsNow /\ CurStep.when # "always") =>
               /\ pc' = "failed"
               /\ execErr' = [kind |-> "step", step |-> CurStep.name]
        /\ (execErr # NoError) =>
               /\ SchedDispatches' = SchedDispatches
               /\ execErr' = execErr
               /\ idx' = idx ]_vars

C3_Witness ==
    /\ pc = "failed"
    /\ idx < Len(flow)
    /\ execErr = [kind |-> "step", step |-> flow[idx].name]
    /\ HasResult(flow[idx].name)
    /\ \A k \in (idx + 1)..Len(flow) : ~Attempted(flow[k].name)

----------------------------------------------------------------------------
(* C4: the failure of a when: always step is recorded and the scheduler    *)
(* goes on.                                                                *)

\* C4: when the attempt of a when: always step fails, a failed StepResult of
\* that step is the newest entry of the results, the any-prior-failure flag
\* is set and the scheduler is at the next step.
C4_AlwaysFailureRecorded ==
    [][ (SchedFailsNow /\ CurStep.when = "always") =>
            /\ results' # <<>>
            /\ Last(results') = [StepName |-> CurStep.name, Success |-> FALSE]
            /\ hasFailure'
            /\ pc' = "loop"
            /\ idx' = idx + 1 ]_vars

----------------------------------------------------------------------------
(* C5: an on-success step reached after a failure is skipped.              *)

\* C5: from a step boundary at a when: on-success step after some attempt has
\* failed, the only transition moves to the next step: no handler call, no
\* StepResult, and the error outcome of the run is left as it was.
C5_OnSuccessSkipped ==
    [][ (AtStep /\ CurStep.when = "on-success" /\ AnySchedFailure) =>
            /\ idx' = idx + 1
            /\ pc' = "loop"
            /\ results' = results
            /\ hist' = hist
            /\ executed' = executed
            /\ execErr' = execErr
            /\ hasFailure' = hasFailure ]_vars

C5_Witness ==
    /\ \E i \in 1..Len(flow) :
           /\ i < idx
           /\ flow[i].when = "on-success"
           /\ ~Attempted(flow[i].name)
           /\ ~HasResult(flow[i].name)
           /\ \E j \in 1..(i - 1) : SchedFailed(flow[j].name)
    /\ pc = "succeeded"
    /\ execErr = NoError

----------------------------------------------------------------------------
(* C6: on-failure steps run exactly when an earlier step failed.           *)

\* C6: at the end of a run, a when: on-failure step has been attempted if and
\* only if the attempt of some earlier step failed.
C6_OnFailureIffEarlierFailure ==
    exited =>
        \A i \in 1..Len(flow) :
            flow[i].when = "on-failure" =>
                (Attempted(flow[i].name) <=>
                    \E j \in 1..(i - 1) : SchedFailed(flow[j].name))

----------------------------------------------------------------------------
(* C7: a step whose dependency has not been executed fails at once.        *)

\* the step at the boundary is not skipped by its when condition
NotGated ==
    /\ ~(CurStep.when = "on-success" /\ AnySchedFailure)
    /\ ~(CurStep.when = "on-failure" /\ ~AnySchedFailure)

\* C7: when the scheduler attempts a step whose `after` names a step outside
\* the executed set, the attempt fails with a dependency error of that step
\* and no handler is called; the run is aborted with that error unless the
\* step is when: always, in which case the scheduler is at the next step.
C7_UnmetDependencyFails ==
    [][ (AtStep /\ NotGated /\ CurStep.after # "" /\ CurStep.after \notin executed) =>
            /\ hist'.dispatched = hist.dispatched
            /\ <<CurStep.name, "sched">> \in hist'.depFailed
            /\ IF CurStep.when = "always"
               THEN pc' = "loop" /\ idx' = idx + 1 /\ execErr' = NoError
               ELSE pc' = "failed"
                    /\ execErr' = [kind |-> "step", step |-> CurStep.name] ]_vars

C7_Witness ==
    /\ pc = "failed"
    /\ flow[idx].after # ""
    /\ <<flow[idx].name, "sched">> \in hist.depFailed
    /\ ~Dispatched(flow[idx].name)
    /\ execErr = [kind |-> "step", step |-> flow[idx].name]
    /\ \E k \in 1..(idx - 1) :
           flow[k].when = "always" /\ <<flow[k].name, "sched">> \in hist.depFailed

----------------------------------------------------------------------------
(* C9: the selection of the cleanup pass.                                  *)

\* C9: the steps a cleanup pass selects are exactly the when: always steps
\* outside the scheduler's executed set, in declared order.
C9_CleanupSelectsUnexecutedAlways ==
    cl["main"].state # "idle" =>
        cl["main"].steps = SelectAlways(flow, executed, 1)

----------------------------------------------------------------------------
(* C8, C10: the interrupt                                                  *)

\* the listener took the signal while the scheduler was still running
InterruptedRun == interrupted /\ hist.duringRun

\* C8: after an interrupt received during the run, the flag is set before the
\* context is cancelled, the cancel precedes the cleanup pass, and the
\* process exits only after the listener's cleanup pass has returned, with
\* status 130.
C8_InterruptOrder ==
    InterruptedRun =>
        /\ monpc \in {"cancelled", "cleanup"} => (interrupted /\ ctxDone)
        /\ cl["monitor"].state # "idle" => (interrupted /\ ctxDone)
        /\ exited => (cl["monitor"].state = "returned" /\ exitStatus = ExitInterrupt)

\* C10: RunCleanup is never started both by the listener and by the main
\* path in one run.
C10_CleanupTriggeredOnce ==
    ~(cl["main"].state # "idle" /\ cl["monitor"].state # "idle")

----------------------------------------------------------------------------
(* C11, C12: the cleanup pass and its timeout                              *)

\* the k-th selected step of the main thread's cleanup pass
Selected(k) == flow[cl["main"].steps[k]].name

\* the pass of the main thread attempted the step named n: it called the
\* handler or the dependency check of the step failed
CleanupAttempted(n) == <<n, "main">> \in hist.dispatched \cup hist.depFailed

\* the attempt of the step named n by the pass of the main thread failed
CleanupFailed(n) == <<n, "main">> \in hist.depFailed \cup hist.handlerFailed

CleanupAttempts ==
    {d \in hist.dispatched \cup hist.depFailed : d[2] = "main"}

\* the pass of the main thread has returned and its timeout had expired
ReturnedExpired == cl["main"].state = "returned" /\ cl["main"].expired

----------------------------------------------------------------------------
(* C13: a panic while the flow is executed                                 *)

\* a panic of the run has been recovered by executeFlow's deferred function
Panicking == pc \in {"recovered", "panicCleanup", "panicStop", "crash"}

\* the panic has been raised again by the deferred function
Reraised == pc \in {"panicStop", "crash"}

\* C13: after a panic during the execution of the flow, the cleanup pass has
\* run and returned before the panic is raised again; the panic is never
\* swallowed (the main path does not resume or return normally), and the
\* process ends by the panic.
C13_PanicCleansUpThenPropagates ==
    [][ /\ Panicking => Panicking'
        /\ Reraised' => cl'["main"].state = "returned"
        /\ (Panicking' /\ exited') => (Reraised' /\ exitStatus' = ExitPanic) ]_vars

C13_Witness ==
    /\ exited
    /\ pc = "crash"
    /\ exitStatus = ExitPanic
    /\ cl["main"].state = "returned"
    /\ Len(cl["main"].steps) >= 1
    /\ <<Selected(1), "main">> \in hist.dispatched
    /\ HasResult(Selected(1))

----------------------------------------------------------------------------
(* C14: the exit status                                                    *)

\* the run ended with a failure: ExecuteWithContext or executeFlow returned
\* an error
RunFailed == execErr # NoError \/ retErr # "nil"

\* the scheduler was stopped by the cancellation that the listener issued on
\* the received signal
StoppedBySignal == interrupted /\ execErr = CancelError

\* C14: the process exits with a non-zero status when the run ended with a
\* failure, and with status 130 when it was stopped by a received signal,
\* whatever the interleaving of the listener and the main path.
C14_ExitStatus ==
    exited =>
        /\ RunFailed => exitStatus # 0
        /\ StoppedBySignal => exitStatus = ExitInterrupt

----------------------------------------------------------------------------
(* C15, C16: http.CheckWithRetry                                           *)

Attempts == Len(hc.seen)

\* the k-th answer of the endpoint is not what the call waits for
FailedAnswer(k) ==
    \/ hc.seen[k].err
    \/ hc.expectedStatus # 0 /\ hc.seen[k].status # hc.expectedStatus

\* the endpoint has failed every attempt so far
AllAnswersFailed == \A k \in 1..Attempts : FailedAnswer(k)

\* C15: a call with retries = N (a retry count, N >= 0) whose every answer is
\* a request error or a status other than the non-zero expected status never
\* makes more than N+1 attempts nor more than N sleeps, never sleeps after
\* the final attempt, returns only after exactly N+1 attempts and N sleeps,
\* then with an error; and the call does return.
C15_FailingEndpoint ==
    /\ [](( hc.state # "idle" /\ hc.retries >= 0 /\ AllAnswersFailed) =>
            /\ Attempts <= hc.retries + 1
            /\ hc.sleeps = (IF Attempts = hc.retries + 1 THEN hc.retries ELSE Attempts)
            /\ hc.state = "returned" =>
                   /\ Attempts = hc.retries + 1
                   /\ hc.sleeps = hc.retries
                   /\ hc.err # "nil")
    /\ <>(hc.state = "returned")

C15_Witness ==
    /\ hc.state = "returned"
    /\ hc.retries = 2
    /\ hc.expectedStatus = 200
    /\ hc.seen = <<Response(500), RequestError, Response(500)>>
    /\ hc.sleeps = 2
    /\ hc.err = "status"

\* C16: the first answer whose status equals the expected status (with
\* expected status 0: the first answer that is a response at all) ends the
\* call: it is the last attempt, the call returns success with that status,
\* and it has slept once per earlier attempt.  In particular 500 then 200
\* with retries = 2 succeeds at the second attempt after one sleep.
C16_FirstAcceptedAnswerReturns ==
    \A k \in 1..Attempts :
        ~FailedAnswer(k) =>
            /\ k = Attempts
            /\ hc.state = "returned"
            /\ hc.err = "nil"
            /\ hc.status = hc.seen[k].status
            /\ hc.sleeps = k - 1

C16_Witness ==
    /\ hc.retries = 2
    /\ hc.expectedStatus = 200
    /\ hc.seen = <<Response(500), Response(200)>>
    /\ hc.state = "returned"
    /\ hc.err = "nil"
    /\ hc.status = 200
    /\ hc.sleeps = 1

----------------------------------------------------------------------------
(* C18, C19, C20: inventory.Matcher.matchPattern                           *)

MatchReturned == mt.state = "returned"

\* the name matches a pattern name read as a glob: "*" stands for any run of
\* characters, every other character for itself
RECURSIVE GlobMatch(_, _)
GlobMatch(glob, name) ==
    IF glob = <<>> THEN name = <<>>
    ELSE IF Head(glob) = "*"
         THEN \/ GlobMatch(Tail(glob), name)
              \/ name # <<>> /\ GlobMatch(glob, Tail(name))
         ELSE name # <<>> /\ Head(name) = Head(glob)
              /\ GlobMatch(Tail(glob), Tail(name))

\* the positions of the resources of the pattern's type
OfPatternType == {i \in 1..Len(mt.resources) : mt.resources[i].Type = mt.pattern.Type}

\* the positions of the resources of the pattern's type whose name matches
\* the pattern's name (".*" standing in for an unset name)
OfPatternTypeAndName ==
    {i \in OfPatternType :
        GlobMatch(IF mt.pattern.Name = <<>> THEN <<".", "*">> ELSE mt.pattern.Name,
                  mt.resources[i].Name)}

\* the count satisfies every configured cardinality constraint
WithinConstraints(count) ==
    /\ mt.pattern.Count.set => count = mt.pattern.Count.v
    /\ mt.pattern.MinCount.set => count >= mt.pattern.MinCount.v
    /\ mt.pattern.MaxCount.set => count <= mt.pattern.MaxCount.v

SubnetsTwoToThree(name) ==
    [Type |-> Subnet, Name |-> name, Count |-> NilInt, MinCount |-> IntPtr(2),
     MaxCount |-> IntPtr(3), Attributes |-> NoAttributes]

\* C19: a pattern named "*" counts every resource of its type, whatever the
\* name; {aws_subnet, "*", min 2, max 3} is matched by three subnets and
\* fails on a single subnet with the min-count issue alone.
C19_StarSelectsWholeType ==
    (MatchReturned /\ mt.pattern.Name = <<"*">>) =>
        /\ mt.result.Count = Cardinality(OfPatternType)
        /\ mt.pattern = SubnetsTwoToThree(<<"*">>) =>
               /\ Cardinality(OfPatternType) = 3 =>
                      (mt.result.Matched /\ mt.result.Issues = <<>>)
               /\ Cardinality(OfPatternType) = 1 =>
                      /\ ~mt.result.Matched
                      /\ Len(mt.result.Issues) = 1
                      /\ mt.result.Issues[1].kind = "min"

C19_Witness ==
    /\ MatchReturned
    /\ mt.pattern = SubnetsTwoToThree(<<"*">>)
    /\ Cardinality(OfPatternType) = 3
    /\ mt.result.Count = 3
    /\ mt.result.Matched

\* C20: a pattern named ".*", or with no name, counts every resource of its
\* type, whatever the name; {aws_subnet, ".*", min 2, max 3} is matched
\* without issues by the subnets public and private.
C20_DotStarSelectsWholeType ==
    (MatchReturned /\ mt.pattern.Name \in {<<".", "*">>, <<>>}) =>
        /\ mt.result.Count = Cardinality(OfPatternType)
        /\ ( /\ mt.pattern = SubnetsTwoToThree(<<".", "*">>)
             /\ mt.resources = <<Resource(Subnet, Public), Resource(Subnet, Private)>> ) =>
               (mt.result.Matched /\ mt.result.Issues = <<>>)

----------------------------------------------------------------------------
(* C17: an inventory step in the advanced format                           *)

\* the key of an expected_resources entry read as README does: the type up
\* to the first dot, the name after it
PatternOfKey(key, config) ==
    LET parts == Split(key)
    IN  [Type |-> parts[1], Name |-> parts[2], Count |-> config.Count,
         MinCount |-> config.MinCount, MaxCount |-> config.MaxCount,
         Attributes |-> config.Attributes]

\* the step declares its expectations in the advanced format only
AdvancedFormat ==
    inv.step.ExpectedResources # <<>> /\ ~inv.step.Expected.set

\* every declared pattern is matched by the fetched state
EveryPatternMatches ==
    \A key \in DOMAIN inv.step.ExpectedResources :
        matchPattern(inv.tf.resources,
                     PatternOfKey(key, inv.step.ExpectedResources[key])).Matched

\* C17: an inventory step in the advanced format, once its state is fetched,
\* succeeds exactly when every declared pattern matches.
C17_AdvancedFormatEvaluated ==
    (inv.state = "returned" /\ AdvancedFormat /\ ~inv.tf.err) =>
        (inv.err = "nil" <=> EveryPatternMatches)


InterpolateReturned == ip.state = "returned"

\* the value a chain of keys leads to from a value: [ok, val]
RECURSIVE Walk(_, _)
Walk(value, segs) ==
    IF segs = <<>> THEN [ok |-> TRUE, val |-> value]
    ELSE IF value.t # "map" THEN [ok |-> FALSE, val |-> NilVal]
    ELSE IF Head(segs) \notin DOMAIN value.v THEN [ok |-> FALSE, val |-> NilVal]
    ELSE Walk(value.v[Head(segs)], Tail(segs))

\* the value a placeholder of keys and a last index stands for
Reached(piece, outputs) ==
    IF piece.kind # "placeholder" \/ outputs.isNil
    THEN [ok |-> FALSE, val |-> NilVal]
    ELSE LET w == Walk(MapVal(outputs.vals), piece.segs)
         IN  IF piece.index < 0 \/ ~w.ok THEN w
             ELSE IF w.val.t # "array" THEN [ok |-> FALSE, val |-> NilVal]
             ELSE IF piece.index >= Len(w.val.v) THEN [ok |-> FALSE, val |-> NilVal]
             ELSE [ok |-> TRUE, val |-> w.val.v[piece.index + 1]]

\* every piece on its own: the value where the path leads to one, the
\* piece as written where it does not
RECURSIVE PieceByPiece(_, _)
PieceByPiece(pieces, outputs) ==
    IF pieces = <<>> THEN <<>>
    ELSE (IF Reached(Head(pieces), outputs).ok
          THEN formatValue(Reached(Head(pieces), outputs).val)
          ELSE PieceText(Head(pieces)))
         \o PieceByPiece(Tail(pieces), outputs)

\* no placeholder is left open in front of another piece
PlaceholdersClosed ==
    \A k \in 1..(Len(ip.pieces) - 1) : ip.pieces[k].kind # "open"

\* C21: a placeholder whose path cannot be resolved (missing key, index out
\* of bounds, index on a value that is no array, descent into a value that
\* is no map) stays in the result as written, the other placeholders of the
\* template are replaced by their values, and a template without a
\* complete placeholder is returned unchanged.
C21_UnresolvedStaysVerbatim ==
    InterpolateReturned =>
        /\ PlaceholdersClosed => ip.result = PieceByPiece(ip.pieces, ip.outputs)
        /\ (\A k \in 1..Len(ip.pieces) : ip.pieces[k].kind \in {"text", "open", "emptyPath"}
               /\ PlaceholdersClosed)
              => ip.result = TemplateText(ip.pieces)
        /\ (\A k \in 1..Len(ip.pieces) : ip.pieces[k].kind \in {"text", "open"})
              => ip.result = TemplateText(ip.pieces)

C21_Witness ==
    /\ InterpolateReturned
    /\ ip.outputs.vals = SampleOutputs
    /\ ip.pieces = <<[kind |-> "placeholder", segs |-> <<<<"m">>>>, index |-> -1],
                     [kind |-> "placeholder", segs |-> <<<<"a">>, <<"b">>>>, index |-> -1]>>
    /\ ip.result = <<Prefix, "m", "}", "x">>

\* the call was Interpolate of the one placeholder ${output.<segs>[<index>]}
\* on the sample snapshot
Placeholder(segs, index) ==
    /\ InterpolateReturned
    /\ ip.outputs = [isNil |-> FALSE, vals |-> SampleOutputs]
    /\ ip.pieces = <<[kind |-> "placeholder", segs |-> segs, index |-> index]>>

\* C22: a path is resolved by descending its dot-separated keys through
\* nested maps, and a trailing [i] indexes the array that the whole path
\* before the bracket leads to: on {a: {b: "x", l: ["p", "q"]},
\* r: [10, 20, 30], s: "v"} the paths a.b, s, r[0], r[1], a.l[0], a.l[1]
\* yield x, v, 10, 20, p, q.
C22_PathDescendsThenIndexes ==
    /\ Placeholder(<<<<"a">>, <<"b">>>>, -1) => ip.result = <<"x">>
    /\ Placeholder(<<<<"s">>>>, -1) => ip.result = <<"v">>
    /\ Placeholder(<<<<"r">>>>, 0) => ip.result = <<"1", "0">>
    /\ Placeholder(<<<<"r">>>>, 1) => ip.result = <<"2", "0">>
    /\ Placeholder(<<<<"a">>, <<"l">>>>, 0) => ip.result = <<"p">>
    /\ Placeholder(<<<<"a">>, <<"l">>>>, 1) => ip.result = <<"q">>

C22_Witness ==
    /\ Placeholder(<<<<"r">>>>, 1)
    /\ ip.result = <<"2", "0">>

\* step k of the parsed flow names in `after` a step that stands before it
AfterNamesEarlier(k) ==
    \E j \in 1..(k - 1) : pf.flow.Steps[j].name = pf.flow.Steps[k].after

\* C23: ParseFlow returns an error, or a Flow with a name, a working
\* directory and at least one step in which every `after` names a step that
\* stands earlier in the sequence.
C23_ParsedFlowSatisfiesInvariants ==
    (pf.state = "returned" /\ pf.err = "") =>
        /\ pf.flow.Name # ""
        /\ pf.flow.WorkingDir # <<>>
        /\ Len(pf.flow.Steps) >= 1
        /\ \A k \in 1..Len(pf.flow.Steps) :
               pf.flow.Steps[k].after # "" => AfterNamesEarlier(k)

\* step i is of a type the switch of executeStepWithContext does not know
\* and the Scheduler has attempted it
UnknownTypeAttempted(i) ==
    /\ flow[i].type \notin RecognizedTypes
    /\ <<flow[i].name, "sched">> \in hist.dispatched

\* C24: once the Scheduler has attempted a step of an unrecognized type,
\* it dispatches no later step of the flow.
C24_UnknownTypeAbortsRun ==
    \A i \in 1..Len(flow) : \A j \in (i + 1)..Len(flow) :
        UnknownTypeAttempted(i) => <<flow[j].name, "sched">> \notin hist.dispatched

\* no two StepResults of the list carry the same step name
OnePerStepName(res) ==
    \A i, j \in 1..Len(res) : res[i].StepName = res[j].StepName => i = j

\* the list `after` is the list `before` with results appended at its end
AppendedTo(before, after) ==
    /\ Len(after) >= Len(before)
    /\ \A i \in 1..Len(before) : after[i] = before[i]

\* C25: through the main run and every cleanup pass the results list holds
\* at most one StepResult per step name, and every step of the program
\* leaves the StepResults already appended in place and unchanged.
C25_ResultsAppendOnlyOnePerStep ==
    [][OnePerStepName(results') /\ AppendedTo(results, results')]_vars

\* thread t is inside a step of a cleanup pass: its handler runs or its
\* StepResult is being appended
CleanupStepInFlight(t) == InCleanup(t) /\ cl[t].state \in {"step", "append"}

\* the main path is inside a step, of the run or of its own cleanup pass
MainStepInFlight ==
    ~exited /\ (pc \in {"step", "append"} \/ CleanupStepInFlight("main"))

\* C26: the main path and the signal listener are never both inside a
\* step (running its handler or writing the results list).
C26_MainAndListenerExclusive ==
    ~(MainStepInFlight /\ CleanupStepInFlight("monitor"))

\* the number of StepResults of the list that carry the step name n
ResultsOf(n) == Cardinality({i \in 1..Len(results) : results[i].StepName = n})

\* C27: every step the Scheduler has attempted, whatever the outcome of the
\* attempt, has exactly one StepResult in the results list.
C27_EveryAttemptRecordedOnce ==
    \A n \in executed : ResultsOf(n) = 1

\* the attempts of the Scheduler that a step of the program adds
NewSchedulerAttempts ==
    {e \in (hist.dispatched' \ hist.dispatched) \cup (hist.depFailed' \ hist.depFailed) :
        e[2] = "sched"}

\* the main path leaves a step boundary of ExecuteWithContext
LeavesBoundary ==
    /\ AtLoopHead
    /\ idx <= Len(flow)
    /\ pc' # pc \/ idx' # idx

\* C28: with the shared context cancelled the Scheduler attempts no step,
\* and the main path leaves a step boundary only by returning the
\* cancellation error, with the step of that boundary neither run nor
\* skipped nor marked executed.
C28_CancelledAtBoundary ==
    [][ctxDone =>
          /\ NewSchedulerAttempts = {}
          /\ LeavesBoundary =>
                /\ pc' = "failed"
                /\ execErr' = CancelError
                /\ idx' = idx
                /\ executed' = executed]_vars

C28_Witness ==
    /\ ctxDone
    /\ pc = "failed"
    /\ execErr = CancelError
    /\ idx = 2
    /\ idx <= Len(flow)
    /\ <<flow[1].name, "sched">> \in hist.dispatched
    /\ <<flow[2].name, "sched">> \notin hist.dispatched

\* C29: after the cancellation of the run an http-check in flight starts
\* no retry sleep and no request beyond the attempt that was under way.
C29_NoAttemptPastCancellation ==
    hc.lateSleeps = 0 /\ hc.lateRequests <= 1

\* the step carries a command list and no single command, and its handler
\* is past the entry
RunsCommandList ==
    /\ cmds.command = ""
    /\ Len(cmds.commands) > 0
    /\ cmds.state \in {"loop", "returned"}

\* C30: a provisioning-command step with a command list (and no single
\* command) starts the commands one by one in list order, starts none with
\* the context cancelled, starts none after a command has failed, returns
\* nil only when every command has run, and on a failure returns the error
\* "command i/n failed" with i the failing command's position, counted from
\* one, and n the length of the list.
C30_CommandListInOrderStopsAtFailure ==
    RunsCommandList =>
        /\ \A k \in 1..Len(cmds.started) :
               cmds.started[k].ordinal = k /\ ~cmds.started[k].cancelled
        /\ cmds.failedAt # 0 =>
               /\ cmds.state = "returned"
               /\ Len(cmds.started) = cmds.failedAt
               /\ cmds.err.kind = "failed"
               /\ cmds.err.i = cmds.failedAt
               /\ cmds.err.n = Len(cmds.commands)
        /\ (cmds.state = "returned" /\ cmds.err.kind = "nil") =>
               Len(cmds.started) = Len(cmds.commands) /\ cmds.failedAt = 0
        /\ (cmds.state = "returned" /\ cmds.err.kind = "cancelled") =>
               cmds.cancelled /\ Len(cmds.started) < Len(cmds.commands)

C30_Witness ==
    /\ RunsCommandList
    /\ Len(cmds.commands) = 3
    /\ cmds.state = "returned"
    /\ cmds.failedAt = 2
    /\ cmds.err.kind = "failed" /\ cmds.err.i = 2 /\ cmds.err.n = 3

\* the error is, or wraps, the report of a cancellation
IsCancellation(err) == err.kind = "cancelled" \/ err.cause = "cancelled"

\* C31: a provisioning command that was in flight or about to start when
\* the context was cancelled is not reported as a success: the handler
\* returns an error that is or wraps a cancellation, the StepResult has
\* Success = false, and an error without a cancellation in flight is never
\* a cancellation.
C31_CancelledCommandNeverSucceeds ==
    cmds.state = "returned" =>
        /\ cmds.hit => IsCancellation(cmds.err) /\ ~cmds.success
        /\ ~cmds.hit => ~IsCancellation(cmds.err)
        /\ cmds.success <=> cmds.err.kind = "nil"

C31_Witness ==
    /\ cmds.state = "returned"
    /\ cmds.hit
    /\ cmds.command = ""
    /\ Len(cmds.started) = 2
    /\ cmds.err.kind = "failed"
    /\ cmds.err.cause = "cancelled"
    /\ ~cmds.success

\* the inventory handler has returned for a step with the field `expected`
LegacyInventoryReturned == inv.state = "returned" /\ inv.step.Expected.set

\* the number of resources of the state that have the type of the entry
CountFor(expected) == Len(GetResourcesByType(inv.tf.resources, expected.Type))

\* C32: with fail_on_missing the inventory step fails when an entry with a
\* min has fewer resources of its type than min, and when an entry with
\* neither min nor max has no resource of its type; without fail_on_missing
\* the step never fails for one of the two, and with both flags unset a
\* step whose state could be read passes.
C32_FailOnMissingGatesLowerBounds ==
    LegacyInventoryReturned =>
        LET entries == inv.step.Expected.Resources
            below(e)  == e.MinCount > 0 /\ CountFor(e) < e.MinCount
            absent(e) == e.MinCount = 0 /\ e.MaxCount = 0 /\ CountFor(e) = 0
        IN  /\ inv.step.FailOnMissing
                  /\ (\E k \in 1..Len(entries) : below(entries[k]) \/ absent(entries[k]))
               => inv.err # "nil"
            /\ ~inv.step.FailOnMissing => inv.err \notin {"atLeast", "notFound"}
            /\ inv.err \in {"atLeast", "notFound"}
               => \E k \in 1..Len(entries) : below(entries[k]) \/ absent(entries[k])
            /\ ~inv.step.FailOnMissing /\ ~inv.step.FailOnExtra /\ ~inv.tf.err
               => inv.err = "nil"

C32_Witness ==
    /\ LegacyInventoryReturned
    /\ inv.step.FailOnMissing
    /\ ~inv.step.FailOnExtra
    /\ Len(inv.step.Expected.Resources) = 2
    /\ inv.step.Expected.Resources[1].MinCount = 2
    /\ CountFor(inv.step.Expected.Resources[1]) = 2
    /\ inv.step.Expected.Resources[2].MinCount = 0
    /\ inv.step.Expected.Resources[2].MaxCount = 0
    /\ CountFor(inv.step.Expected.Resources[2]) = 0
    /\ inv.err = "notFound"

\* C33: with fail_on_extra the inventory step fails when the count of an
\* entry's type exceeds its max, and when the state holds a resource whose
\* type no entry names; without fail_on_extra the step never fails for one
\* of the two.
C33_FailOnExtraGatesUpperBounds ==
    LegacyInventoryReturned =>
        LET entries == inv.step.Expected.Resources
            above(e)  == e.MaxCount > 0 /\ CountFor(e) > e.MaxCount
            unnamed(r) == \A k \in 1..Len(entries) : entries[k].Type # r.Type
            extra == \E j \in 1..Len(inv.tf.resources) : unnamed(inv.tf.resources[j])
        IN  /\ inv.step.FailOnExtra
                  /\ (extra \/ \E k \in 1..Len(entries) : above(entries[k]))
               => inv.err # "nil"
            /\ ~inv.step.FailOnExtra => inv.err \notin {"atMost", "unexpected"}
            /\ inv.err = "atMost" => \E k \in 1..Len(entries) : above(entries[k])
            /\ inv.err = "unexpected" => extra

C33_Witness ==
    /\ LegacyInventoryReturned
    /\ inv.step.FailOnExtra
    /\ ~inv.step.FailOnMissing
    /\ Len(inv.step.Expected.Resources) = 1
    /\ inv.step.Expected.Resources[1].MaxCount = 0
    /\ Len(inv.tf.resources) = 2
    /\ inv.tf.resources[1].Type = inv.step.Expected.Resources[1].Type
    /\ inv.tf.resources[2].Type # inv.step.Expected.Resources[1].Type
    /\ inv.err = "unexpected"

\* the number of issues of the kind in the result of matchPattern
IssuesOfKind(kind) ==
    Cardinality({k \in 1..Len(mt.result.Issues) : mt.result.Issues[k].kind = kind})

\* C34: matchPattern reports the violations of the count constraints
\* independently and in the order exact, min, max: every configured
\* constraint that is violated adds exactly one issue, one that holds or is
\* not configured adds none, and the count issues precede all other issues.
C34_CountIssuesIndependentInOrder ==
    mt.state = "returned" =>
        LET m == mt.pattern
            r == mt.result
            rank(kind) == CASE kind = "exact" -> 1 [] kind = "min" -> 2
                            [] kind = "max" -> 3 [] OTHER -> 4
        IN  /\ IssuesOfKind("exact") = IF m.Count.set /\ r.Count # m.Count.v THEN 1 ELSE 0
            /\ IssuesOfKind("min") = IF m.MinCount.set /\ r.Count < m.MinCount.v THEN 1 ELSE 0
            /\ IssuesOfKind("max") = IF m.MaxCount.set /\ r.Count > m.MaxCount.v THEN 1 ELSE 0
            /\ \A j, k \in 1..Len(r.Issues) :
                   j < k => rank(r.Issues[j].kind) <= rank(r.Issues[k].kind)
            /\ \A k \in 1..Len(r.Issues) :
                   rank(r.Issues[k].kind) < 4 =>
                       /\ r.Issues[k].found = r.Count
                       /\ r.Issues[k].want = CASE r.Issues[k].kind = "exact" -> m.Count.v
                                               [] r.Issues[k].kind = "min" -> m.MinCount.v
                                               [] r.Issues[k].kind = "max" -> m.MaxCount.v

C34_Witness ==
    /\ mt.state = "returned"
    /\ mt.pattern.Count = IntPtr(2)
    /\ mt.pattern.MinCount = IntPtr(2)
    /\ mt.result.Count = 1
    /\ Len(mt.result.Issues) = 2
    /\ mt.result.Issues[1].kind = "exact"
    /\ mt.result.Issues[2].kind = "min"
    /\ ~mt.result.Matched

\* the result of matchPattern holds an issue of the kind for the attribute
\* of the resource
HasIssue(kind, res, path) ==
    \E k \in 1..Len(mt.result.Issues) :
        /\ mt.result.Issues[k].kind = kind
        /\ mt.result.Issues[k].resource = <<res.Type, res.Name>>
        /\ mt.result.Issues[k].attribute = path

\* C35: an expected boolean equals the actual value of an attribute only
\* when the actual value is a boolean with the same truth value: a selected
\* resource whose attribute resolves gets no mismatch for an expected
\* boolean exactly when the attribute holds that boolean.
C35_BoolEqualsOnlyBool ==
    mt.state = "returned" =>
        \A path \in DOMAIN mt.pattern.Attributes :
            LET expectedVal == mt.pattern.Attributes[path]
            IN  expectedVal.t = "bool" =>
                    \A k \in 1..Len(mt.result.Resources) :
                        LET res == mt.result.Resources[k]
                            got == getNestedAttribute(res.Attributes, path)
                        IN  ~got.err =>
                                (~HasIssue("mismatch", res, path)
                                    <=> got.val.t = "bool" /\ got.val.v = expectedVal.v)

\* every segment of the path is a key of the map it is looked up in, and
\* every segment but the last holds a nested map
RECURSIVE Resolves(_, _)
Resolves(attrs, parts) ==
    /\ Head(parts) \in DOMAIN attrs
    /\ \/ Len(parts) = 1
       \/ /\ attrs[Head(parts)].t = "map"
          /\ Resolves(attrs[Head(parts)].v, Tail(parts))

\* C36: a dotted attribute path fails to resolve when a segment is absent
\* or a segment before the last does not hold a nested map; for every
\* selected resource each such failure adds exactly one AttributeMismatch
\* with a nil Actual and exactly one issue, and the pattern is not Matched;
\* a path that resolves adds no not-found issue.
C36_UnresolvedPathIsOneMismatch ==
    mt.state = "returned" =>
        \A path \in DOMAIN mt.pattern.Attributes :
            \A k \in 1..Len(mt.result.Resources) :
                LET res == mt.result.Resources[k]
                    r == mt.result
                    at(list) == {j \in 1..Len(list) :
                                    /\ list[j].resource = <<res.Type, res.Name>>
                                    /\ list[j].attribute = path}
                IN  IF Resolves(res.Attributes, Split(path))
                    THEN ~HasIssue("notfound", res, path)
                    ELSE /\ Cardinality(at(r.Issues)) = 1
                         /\ Cardinality(at(r.Mismatches)) = 1
                         /\ \A j \in at(r.Issues) : r.Issues[j].kind = "notfound"
                         /\ \A j \in at(r.Mismatches) :
                                r.Mismatches[j].actual = NilVal
                         /\ ~r.Matched

C36_Witness ==
    /\ mt.state = "returned"
    /\ DOMAIN mt.pattern.Attributes = {<<"c", ".", "n">>}
    /\ Len(mt.result.Resources) = 2
    /\ mt.result.Resources[1].Name = Public
    /\ mt.result.Resources[2].Name = <<"a", "b">>
    /\ Len(mt.result.Mismatches) = 2
    /\ Len(mt.result.Issues) = 2
    /\ ~mt.result.Matched

\* the loop of the scheduler went past step i without attempting it: the
\* step was skipped by its `when`
Skipped(i) ==
    /\ i < idx
    /\ <<flow[i].name, "sched">> \notin hist.dispatched \cup hist.depFailed

\* C37: a step skipped by its `when` is not in the executed set, and every
\* attempt (by the scheduler or by the cleanup pass) of a later step whose
\* `after` names the skipped step is a failed dependency check.
C37_SkippedStepFailsDependents ==
    [][\A i \in 1..Len(flow) :
          Skipped(i) =>
              /\ flow[i].name \notin executed
              /\ flow[i].name \notin executed'
              /\ \A j \in (i + 1)..Len(flow), by \in {"sched"} \cup Threads :
                     /\ flow[j].after = flow[i].name
                     /\ <<flow[j].name, by>> \notin hist.dispatched \cup hist.depFailed
                     /\ <<flow[j].name, by>> \in hist'.dispatched \cup hist'.depFailed
                     => /\ <<flow[j].name, by>> \in hist'.depFailed
                        /\ by = "sched" => hasFailure']_vars

C37_Witness ==
    \E i, j \in 1..Len(flow) :
        /\ i < j
        /\ Skipped(i)
        /\ flow[i].when = "on-failure"
        /\ flow[j].after = flow[i].name
        /\ flow[j].when = ""
        /\ <<flow[j].name, "sched">> \in hist.depFailed
        /\ execErr = StepError(flow[j])

\* C38: when the only steps that fail are when: always steps (no handler
\* panics and the report is written), ExecuteWithContext returns nil, no
\* cleanup pass is run and the command exits with status 0, while the
\* results list holds a StepResult with Success = false.
C38_AlwaysOnlyFailuresExitZero ==
    /\ exited
    /\ AnySchedFailure
    /\ \A i \in 1..Len(flow) : SchedFailed(flow[i].name) => flow[i].when = "always"
    /\ exitStatus # ExitPanic
    /\ retErr # "report"
    => /\ execErr = NoError
       /\ retErr = "nil"
       /\ cl["main"] = IdleCleanup
       /\ exitStatus = 0
       /\ \E k \in 1..Len(results) : ~results[k].Success

\* C39: on the failure path the report is generated from the results list
\* before the cleanup pass of the main path starts and is not written again:
\* it is the list as it stood at the failure, and each of its StepResults
\* is of a step the scheduler executed, none of a step the cleanup pass
\* executed.
C39_ReportPrecedesCleanup ==
    [][/\ pc = "failed" /\ pc' = "cleanupStart"
          => /\ report' = results
             /\ cl["main"] = IdleCleanup
             /\ \A k \in 1..Len(report') :
                    <<report'[k].StepName, "sched">> \in hist.dispatched
       /\ pc \in {"cleanupStart", "cleanup"} => report' = report]_vars

\* C40: an http-check step with a retry count N > 0 makes at most N+1
\* attempts; with a retry count of 0 (set or unset) it polls with 3
\* retries, at most 4 attempts; every sleep between two attempts lasts the
\* delay of the step, or 10 seconds when the delay is missing or does not
\* parse.
C40_HTTPStepDefaults ==
    hc.step # <<>> =>
        LET N == hc.step.Retries
            unparsable == hc.step.Delay \in {<<>>, <<"7">>, <<"a", "s">>}
            seconds == CASE hc.step.Delay = <<"5", "s">> -> 5
                         [] hc.step.Delay = <<"2", "m">> -> 120
                         [] hc.step.Delay = <<"0">> -> 0
                         [] OTHER -> 10
        IN  /\ N > 0 => hc.retries = N /\ Attempts <= N + 1
            /\ N = 0 => hc.retries = 3 /\ Attempts <= 4
            /\ unparsable => hc.delay = 10
            /\ hc.slept = hc.sleeps * seconds
            /\ hc.state = "returned" /\ hc.err # "nil" /\ N >= 0
               => Attempts = (IF N = 0 THEN 4 ELSE N + 1)

C40_Witness ==
    /\ hc.step # <<>>
    /\ hc.step.Retries = 0
    /\ hc.step.Delay = <<>>
    /\ hc.state = "returned"
    /\ Attempts = 4
    /\ hc.sleeps = 3
    /\ hc.slept = 30
    /\ hc.err = "status"
====
